---------------------------- MODULE Spec2Model ----------------------------
(***************************************************************************)
(* A model of the sharp-sniper betting engine: the edge calculator         *)
(* (src/engine/edge.py), the rating engine's spread and total              *)
(* (src/ratings.py), the confidence tiers (src/config.py) and the pick     *)
(* tracker (src/tracking.py).                                              *)
(*                                                                         *)
(* Numbers.  Every Python float is modelled as an exact decimal held in    *)
(* thousandths ("milli"): 6.5 points is 6500, 1.5 units is 1500.  A float  *)
(* argument of compute_edge is a tagged value, because the validation of   *)
(* the code distinguishes None, NaN and the infinities from numbers:       *)
(*   [k |-> "num", v |-> 6500]   [k |-> "none"]  [k |-> "nan"]             *)
(*   [k |-> "inf", v |-> 1 or -1]                                          *)
(* round(x, n) is modelled as round-half-to-even on the exact decimal,     *)
(* which is what Python computes whenever the decimal is not a tie.        *)
(***************************************************************************)
EXTENDS Integers, Sequences, FiniteSets, TLC

VARIABLES
    \* ---- edge calculator (one compute_edge call) ----
    epc,        \* "idle" before a call, "direct" / "pipeline" after one
    calcSport,  \* EdgeCalculator.sport of the calculator that was called
    call,       \* the arguments of the last compute_edge call
    outcome,    \* what the call did: "none", "returned" or "raised"
    res,        \* the EdgeResult it returned
    \* ---- pick tracker (the picks table and its callers) ----
    picks,      \* the rows of table picks, in rowid order
    seq,        \* sqlite_sequence of picks: the largest id ever handed out
    now,        \* the clock read by datetime.now()
    lastOp,     \* the last PickTracker call and its arguments
    report      \* the dict the last get_performance_report returned

VARIABLES
    \* ---- rank_edges (one caller holding a list of EdgeResults) ----
    edges,      \* the list object the caller passes to rank_edges
    max_plays,  \* the max_plays of the last rank_edges call, -1 before one
    ranked      \* the list the last rank_edges call returned

VARIABLES
    \* ---- rating engine (one RatingEngine and its last computation) ----
    engine,     \* the RatingEngine: not built, built with its weights, or failed
    rcall,      \* the last compute_*_ratings call: its sport and profiles
    ratings     \* the dict that call returned

edgeVars == <<epc, calcSport, call, outcome, res>>
trackVars == <<picks, seq, now, lastOp, report>>
rankVars == <<edges, max_plays, ranked>>
VARIABLES
    \* ---- injury tracker (one InjuryTracker) ----
    injuries,   \* InjuryTracker.injuries: team key -> list of InjuryEntry
    iop         \* the last InjuryTracker call and its arguments

ratingVars == <<engine, rcall, ratings>>
VARIABLES
    \* ---- matchup analyzer (one MatchupAnalyzer and its last batch) ----
    analyzer,   \* which MatchupAnalyzer, its sport, _ratings and _games
    batch       \* the last batch: all_edges and the list returned

VARIABLES
    \* ---- one picks database used by several processes at once ----
    db,         \* the committed picks table of the database file
    wtxn,       \* the open write transaction: its owner and its table
    conns,      \* per process: the PickTracker call in progress
    base        \* the committed table when the calls in progress began

VARIABLES
    \* ---- refresh cycles of one MatchupAnalyzer and the stats feed ----
    today,      \* the day: the date of a request and the numbers the feed serves
    pipeline    \* the analyzer: its stats client's _cache, its _ratings and
                \* _games, and what its last refresh_data requested and used

injuryVars == <<injuries, iop>>
batchVars == <<analyzer, batch>>
concVars == <<db, wtxn, conns, base>>
refreshVars == <<today, pipeline>>
vars == <<edgeVars, trackVars, rankVars, ratingVars, injuryVars, batchVars, concVars, refreshVars>>

\* What the actions of one component leave alone
notEdgeVars == <<trackVars, rankVars, ratingVars, injuryVars, batchVars, concVars, refreshVars>>
notTrackVars == <<edgeVars, rankVars, ratingVars, injuryVars, batchVars, concVars, refreshVars>>
notRankVars == <<edgeVars, trackVars, ratingVars, injuryVars, batchVars, concVars, refreshVars>>
notRatingVars == <<edgeVars, trackVars, rankVars, injuryVars, batchVars, concVars, refreshVars>>
notInjuryVars == <<edgeVars, trackVars, rankVars, ratingVars, batchVars, concVars, refreshVars>>
notBatchVars == <<edgeVars, trackVars, rankVars, ratingVars, injuryVars, concVars, refreshVars>>
notConcVars == <<edgeVars, trackVars, rankVars, ratingVars, injuryVars, batchVars, refreshVars>>
notRefreshVars == <<edgeVars, trackVars, rankVars, ratingVars, injuryVars, batchVars, concVars>>

-----------------------------------------------------------------------------
(* Arithmetic helpers *)

Abs(x) == IF x < 0 THEN -x ELSE x

\* n/d rounded to the nearest integer, ties to the even one (d > 0).
RoundHalfEven(n, d) ==
    LET q == n \div d
        r == n % d
    IN  IF 2 * r < d THEN q
        ELSE IF 2 * r > d THEN q + 1
        ELSE IF q % 2 = 0 THEN q ELSE q + 1

\* round(x, 1) and round(x, 2) of a milli value, as a milli value
Round1(x) == RoundHalfEven(x, 100) * 100
Round2(x) == RoundHalfEven(x, 10) * 10

\* Tagged floats
Num(v) == [k |-> "num", v |-> v]
NoneV == [k |-> "none", v |-> 0]
NaN == [k |-> "nan", v |-> 0]
PosInf == [k |-> "inf", v |-> 1]
NegInf == [k |-> "inf", v |-> -1]

\* x > c and x < c for a float x (not None) and a finite c: NaN compares
\* false with everything
FGt(x, c) ==
    CASE x.k = "num" -> x.v > c
      [] x.k = "inf" -> x.v > 0
      [] OTHER -> FALSE
FLt(x, c) ==
    CASE x.k = "num" -> x.v < c
      [] x.k = "inf" -> x.v < 0
      [] OTHER -> FALSE
\* abs(x) > c
FAbsGt(x, c) ==
    CASE x.k = "num" -> Abs(x.v) > c
      [] x.k = "inf" -> TRUE
      [] OTHER -> FALSE
\* a - b for floats a, b (neither None)
FSub(a, b) ==
    CASE a.k = "nan" \/ b.k = "nan" -> NaN
      [] a.k = "num" /\ b.k = "num" -> Num(a.v - b.v)
      [] a.k = "inf" /\ b.k = "num" -> a
      [] a.k = "num" /\ b.k = "inf" -> [k |-> "inf", v |-> -b.v]
      [] OTHER -> IF a.v = b.v THEN NaN ELSE a
\* round(x, 1) of a float: NaN and the infinities round to themselves
FRound1(x) == IF x.k = "num" THEN Num(Round1(x.v)) ELSE x

-----------------------------------------------------------------------------
(* src/config.py *)

\* EdgeThresholds of the two sports (NBA_THRESHOLDS, NCAAB_THRESHOLDS)
NBA_THRESHOLDS == [min_edge_points |-> 1500, strong_edge_points |-> 3000]
NCAAB_THRESHOLDS == [min_edge_points |-> 2000, strong_edge_points |-> 4000]

Thresholds(sport) == IF sport = "nba" THEN NBA_THRESHOLDS ELSE NCAAB_THRESHOLDS

\* HOME_COURT.get(sport, 2.5)
HomeCourt(sport) ==
    CASE sport = "nba" -> 2500
      [] sport = "ncaab" -> 3300
      [] OTHER -> 2500

\* (the tiers read against the NBA thresholds whatever the sport)
MutGetConfidenceTier(edge_points, sport) ==
    IF 10 * edge_points >= NBA_THRESHOLDS.strong_edge_points * 15 THEN "HIGH"
    ELSE IF edge_points >= NBA_THRESHOLDS.strong_edge_points THEN "STRONG"
    ELSE IF edge_points >= NBA_THRESHOLDS.min_edge_points THEN "MODERATE"
    ELSE "LOW"
get_confidence_tier(edge_points, sport) ==
    LET thresholds == Thresholds(sport)
    IN  IF 10 * edge_points >= thresholds.strong_edge_points * 15 THEN "HIGH"
        ELSE IF edge_points >= thresholds.strong_edge_points THEN "STRONG"
        ELSE IF edge_points >= thresholds.min_edge_points THEN "MODERATE"
        ELSE "LOW"

\* src/app.py, tier(edge, conf) of build_edges: the tier column of the
\* dashboard table, from an edge in points and a confidence in [0, 1]
build_edges_tier(edge, conf) ==
    IF edge >= 3000 /\ conf >= 900 THEN "SNIPER"
    ELSE IF edge >= 2000 /\ conf >= 850 THEN "PRIMARY"
    ELSE IF edge >= 1500 /\ conf >= 800 THEN "SECONDARY"
    ELSE "WATCH"
\* confidence values below, on and above the three thresholds of the rules
ConfValues == {740, 800, 850, 900, 920}

-----------------------------------------------------------------------------
(* src/engine/edge.py *)

MAX_EDGE_POINTS == 10000
MAX_SPREAD_ABS == 30000
MAX_TOTAL == 300000
MIN_TOTAL == 150000
MutMAX_INJURY_IMPACT == MAX_SPREAD_ABS
MAX_INJURY_IMPACT == 12000
MAX_RATING_ABS == 25000
MIN_IMPLIED_PROB == 10
MAX_IMPLIED_PROB == 990

\* lines 253-256: the spread sanity rule, abs(spread) > MAX_SPREAD_ABS
MutSpreadInsane(spread) == FAbsGt(spread, MAX_SPREAD_ABS - 1)
SpreadInsane(spread) == FAbsGt(spread, MAX_SPREAD_ABS)

IsNoneOrNaN(x) == x.k = "none" \/ x.k = "nan"

\* _validate_inputs: [kind |-> "clean"], [kind |-> "error", msg |-> ...] when it
\* returns an error string, [kind |-> "raise"] when a comparison with None
\* raises TypeError.  The checks run in the order of the code.
ValidateInputs(model_spread, model_total, market_spread, market_total, implied_prob, injury_impact, away_rating, home_rating) ==
    IF IsNoneOrNaN(model_spread)
        THEN [kind |-> "error", msg |-> "model_spread is NaN/None"]
    ELSE IF IsNoneOrNaN(market_spread)
        THEN [kind |-> "error", msg |-> "market_spread is NaN/None"]
    ELSE IF IsNoneOrNaN(model_total)
        THEN [kind |-> "error", msg |-> "model_total is NaN/None"]
    ELSE IF IsNoneOrNaN(market_total)
        THEN [kind |-> "error", msg |-> "market_total is NaN/None"]
    ELSE IF SpreadInsane(model_spread)
        THEN [kind |-> "error", msg |-> "Model spread exceeds +/-30.0"]
    ELSE IF SpreadInsane(market_spread)
        THEN [kind |-> "error", msg |-> "Market spread exceeds +/-30.0"]
    ELSE IF FGt(model_total, 0)
            /\ (FGt(model_total, MAX_TOTAL) \/ FLt(model_total, MIN_TOTAL))
        THEN [kind |-> "error", msg |-> "Model total outside range [150.0, 300.0]"]
    ELSE IF implied_prob.k = "none"
        THEN [kind |-> "raise", msg |-> "TypeError"]
    ELSE IF FLt(implied_prob, MIN_IMPLIED_PROB) \/ FGt(implied_prob, MAX_IMPLIED_PROB)
        THEN [kind |-> "error", msg |-> "Implied prob outside [0.01, 0.99]"]
    ELSE IF injury_impact.k = "none"
        THEN [kind |-> "raise", msg |-> "TypeError"]
    ELSE IF FAbsGt(injury_impact, MAX_INJURY_IMPACT)
        THEN [kind |-> "error", msg |-> "Injury impact exceeds +/-12.0"]
    ELSE IF Abs(away_rating.weighted_net) > MAX_RATING_ABS
            \/ Abs(home_rating.weighted_net) > MAX_RATING_ABS
        THEN [kind |-> "error", msg |-> "Weighted net rating outside +/-25 range"]
    ELSE [kind |-> "clean", msg |-> ""]

\* _quarantined_result
QuarantinedResult(sport, away_rating, home_rating, reason) ==
    [away_team |-> away_rating.team_abbr,
     home_team |-> home_rating.team_abbr,
     sport |-> sport,
     away_rating |-> away_rating.weighted_net,
     home_rating |-> home_rating.weighted_net,
     model_spread_home |-> Num(0),
     model_total |-> Num(0),
     market_spread_home |-> Num(0),
     market_total |-> Num(0),
     home_implied_prob |-> Num(500),
     spread_edge |-> 0,
     total_edge |-> Num(0),
     injury_impact |-> Num(0),
     injury_summary_away |-> "QUARANTINED",
     injury_summary_home |-> reason,
     confidence |-> "LOW",
     play_side |-> "NO PLAY",
     is_playable |-> FALSE]

\* lines 197-199: is_playable = edge_abs >= self.thresholds.min_edge_points
MutIsPlayable(sport, spread_edge) ==
    Abs(spread_edge) > Thresholds(sport).min_edge_points
IsPlayable(sport, spread_edge) ==
    Abs(spread_edge) >= Thresholds(sport).min_edge_points

\* lines 201-208: the play side of an edge
MutPlaySide(is_playable, spread_edge) ==
    IF ~is_playable THEN "NO PLAY"
    ELSE IF spread_edge > 0 THEN "HOME"
    ELSE "AWAY"
PlaySide(is_playable, spread_edge) ==
    IF ~is_playable THEN "NO PLAY"
    ELSE IF spread_edge < 0 THEN "HOME"
    ELSE "AWAY"

\* lines 169-178: the anomaly guard on the edge
MutEdgeAnomaly(spread_edge) == Abs(spread_edge) > MAX_SPREAD_ABS
EdgeAnomaly(spread_edge) == Abs(spread_edge) > MAX_EDGE_POINTS

\* compute_edge: [outcome |-> "returned" or "raised", res |-> EdgeResult].
\* model_win_prob_home and ev_pct (a power of ten and a quotient of
\* probabilities; neither can raise once validation has passed) and the trend
\* and regime fields copied from the ratings are left out of the result.
compute_edge(sport, c) ==
    LET v == ValidateInputs(c.model_spread_home, c.model_total,
                            c.market_spread_home, c.market_total,
                            c.home_implied_prob, c.injury_impact,
                            c.away_rating, c.home_rating)
        spread_edge == c.model_spread_home.v - c.market_spread_home.v
        total_edge == FSub(c.model_total, c.market_total)
        is_playable == IsPlayable(sport, spread_edge)
    IN  IF v.kind = "raise"
            THEN [outcome |-> "raised",
                  res |-> QuarantinedResult(sport, c.away_rating, c.home_rating, v.msg)]
        ELSE IF v.kind = "error"
            THEN [outcome |-> "returned",
                  res |-> QuarantinedResult(sport, c.away_rating, c.home_rating, v.msg)]
        ELSE IF EdgeAnomaly(spread_edge)
            THEN [outcome |-> "returned",
                  res |-> QuarantinedResult(sport, c.away_rating, c.home_rating,
                                            "Edge exceeds cap (10.0). Likely data error.")]
        ELSE [outcome |-> "returned",
              res |-> [away_team |-> c.away_rating.team_abbr,
                       home_team |-> c.home_rating.team_abbr,
                       sport |-> sport,
                       away_rating |-> c.away_rating.weighted_net,
                       home_rating |-> c.home_rating.weighted_net,
                       model_spread_home |-> c.model_spread_home,
                       model_total |-> c.model_total,
                       market_spread_home |-> c.market_spread_home,
                       market_total |-> c.market_total,
                       home_implied_prob |-> c.home_implied_prob,
                       spread_edge |-> Round1(spread_edge),
                       total_edge |-> FRound1(total_edge),
                       injury_impact |-> c.injury_impact,
                       injury_summary_away |-> c.injury_summary_away,
                       injury_summary_home |-> c.injury_summary_home,
                       confidence |-> get_confidence_tier(Abs(spread_edge), sport),
                       play_side |-> PlaySide(is_playable, spread_edge),
                       is_playable |-> is_playable]]

-----------------------------------------------------------------------------
(* src/ratings.py: the model spread and the model total of a matchup *)

\* str.upper() on the team identifiers the model uses
Upper(s) ==
    CASE s = "Duke" -> "DUKE"
      [] s = "Gonzaga" -> "GONZAGA"
      [] s = "sas" -> "SAS"
      [] OTHER -> s

\* lines 290-294: the home-court term of compute_model_spread
HomeCourtTerm(team_a_rating, team_b_rating, home_team) ==
    IF Upper(home_team) = Upper(team_a_rating.team_abbr)
        THEN HomeCourt(team_a_rating.sport)
    ELSE IF Upper(home_team) = Upper(team_b_rating.team_abbr)
        THEN -HomeCourt(team_a_rating.sport)
    ELSE 0

\* compute_model_spread, positive = team A favored
compute_model_spread(team_a_rating, team_b_rating, home_team, injury_adj, rest_adj) ==
    Round1(team_a_rating.weighted_net - team_b_rating.weighted_net
           + HomeCourtTerm(team_a_rating, team_b_rating, home_team)
           + injury_adj + rest_adj)

\* compute_model_total: a_scores + b_scores with
\*   x_scores = (off_x + (200 - def_y)) / 2 * ((pace_a + pace_b) / 2 / 100)
compute_model_total(team_a_rating, team_b_rating) ==
    LET pace2 == team_a_rating.weighted_pace + team_b_rating.weighted_pace
        pts2 == (team_a_rating.weighted_off + (200000 - team_b_rating.weighted_def))
                + (team_b_rating.weighted_off + (200000 - team_a_rating.weighted_def))
    \* the composites are rounded to 2 decimals, so both sums are whole
    \* hundredths; the product is taken in hundredths to stay within 32 bits
    IN  RoundHalfEven((pts2 \div 10) * (pace2 \div 10), 400000) * 100

-----------------------------------------------------------------------------
(* The calls of compute_edge the model makes *)

Sports == {"nba", "ncaab"}

\* PowerRating records (the fields compute_edge and the spread read), as
\* compute_nba_ratings (team_abbr = the key) and compute_ncaab_ratings
\* (team_abbr = name[:4].upper(), the key being the full name) build them.
\* key is the key of the record in the ratings dict.
TeamIds ==
    {[key |-> "SAS", team_abbr |-> "SAS", sport |-> "nba"],
     [key |-> "LAL", team_abbr |-> "LAL", sport |-> "nba"],
     [key |-> "Duke", team_abbr |-> "DUKE", sport |-> "ncaab"],
     [key |-> "Gonzaga", team_abbr |-> "GONZ", sport |-> "ncaab"]}

HomeNets == {5000, -3250, 26000}
AwayNets == {1000, 4400}

Rating(t, net) ==
    [key |-> t.key, team_abbr |-> t.team_abbr, sport |-> t.sport,
     weighted_net |-> net, weighted_off |-> 115000, weighted_def |-> 110000,
     weighted_pace |-> 100000]

\* Arguments of direct calls
ModelSpreadArgs ==
    {Num(6500), Num(-6500), Num(1460), Num(-1540), Num(2000), Num(0),
     Num(30000), Num(-30000), Num(30010), NaN, NoneV, PosInf}
MarketSpreadArgs ==
    {Num(-4000), Num(3000), Num(0), Num(-4167), Num(30000), Num(-30500), NaN, NegInf}
ModelTotalArgs == {Num(225000), Num(0), Num(140000), NoneV, NegInf}
MarketTotalArgs == {Num(222500), NaN, PosInf}
\* inside, below, above and exactly on the bounds 0.01 and 0.99
ImpliedProbArgs == {Num(620), Num(5), Num(10), Num(990), Num(995), NoneV}
\* inside, beyond and exactly on the bounds -12 and 12
InjuryArgs == {Num(0), Num(12500), Num(12000), Num(-12000), NoneV}
\* weighted_net of the home and the away rating of a direct call: ordinary,
\* exactly on the bounds 25 and -25, and beyond the bound
DirectNets == {<<5000, 1000>>, <<25000, -25000>>, <<1000, -25100>>}

\* Market data of a game on the board (GameOdds averages) and the injury
\* differential of the matchup
BoardSpreads == {-4000, 3000, 0, 4750, -12000, 6667}
BoardTotals == {222500, 0}
BoardProbs == {620, 400}
BoardInjury == {0, 1500, -3200}

NoCall == [kind |-> "none"]
NoResult == [kind |-> "none"]

EdgeInit ==
    /\ epc = "idle"
    /\ calcSport = "nba"
    /\ call = NoCall
    /\ outcome = "none"
    /\ res = NoResult

\* The caller's view of one compute_edge call
DoComputeEdge(how, sport, c) ==
    LET r == compute_edge(sport, c)
    IN  /\ epc' = how
        /\ calcSport' = sport
        /\ call' = c
        /\ outcome' = r.outcome
        /\ res' = IF r.outcome = "returned" THEN r.res ELSE NoResult

\* A direct call of EdgeCalculator(sport).compute_edge with any arguments
CallComputeEdge ==
    /\ epc = "idle"
    /\ \E sport \in Sports, home \in {t \in TeamIds : t.key \in {"SAS", "Duke"}},
       away \in {t \in TeamIds : t.key \in {"LAL", "Gonzaga"}},
       ms \in ModelSpreadArgs, ks \in MarketSpreadArgs,
       mt \in ModelTotalArgs, kt \in MarketTotalArgs,
       ip \in ImpliedProbArgs, inj \in InjuryArgs, nets \in DirectNets :
        /\ home.sport = sport /\ away.sport = sport
        /\ DoComputeEdge("direct", sport,
              [kind |-> "call",
               away_rating |-> Rating(away, nets[2]),
               home_rating |-> Rating(home, nets[1]),
               model_spread_home |-> ms, model_total |-> mt,
               market_spread_home |-> ks, market_total |-> kt,
               home_implied_prob |-> ip, injury_impact |-> inj,
               injury_summary_away |-> "No significant injuries",
               injury_summary_home |-> "No significant injuries"])
        /\ UNCHANGED notEdgeVars

\* One game of MatchupAnalyzer._compute_all_edges (src/matchups.py lines
\* 150-178): both ratings were found and a line is posted; the model spread
\* and total come from the rating engine with the home team as team A.
AnalyzeGame ==
    /\ epc = "idle"
    /\ \E home \in TeamIds, away \in TeamIds, hn \in HomeNets, an \in AwayNets,
       ks \in BoardSpreads, kt \in BoardTotals, ip \in BoardProbs,
       injury_adj \in BoardInjury :
        LET home_rating == Rating(home, hn)
            away_rating == Rating(away, an)
            model_spread == compute_model_spread(home_rating, away_rating, home.key, injury_adj, 0)
            model_total == compute_model_total(home_rating, away_rating)
        IN  /\ home.sport = away.sport /\ home # away
            /\ ~(ks = 0 /\ kt = 0)
            /\ DoComputeEdge("pipeline", home.sport,
                  [kind |-> "call",
                   away_rating |-> away_rating,
                   home_rating |-> home_rating,
                   model_spread_home |-> Num(model_spread),
                   model_total |-> Num(model_total),
                   market_spread_home |-> Num(ks), market_total |-> Num(kt),
                   home_implied_prob |-> Num(ip), injury_impact |-> Num(injury_adj),
                   injury_summary_away |-> "No significant injuries",
                   injury_summary_home |-> "No significant injuries"])
            /\ UNCHANGED notEdgeVars

\* The caller is done with the result; the calculator keeps no state
DropResult ==
    /\ epc # "idle"
    /\ epc' = "idle"
    /\ calcSport' = "nba"
    /\ call' = NoCall
    /\ outcome' = "none"
    /\ res' = NoResult
    /\ UNCHANGED notEdgeVars

EdgeNext == CallComputeEdge \/ AnalyzeGame \/ DropResult

-----------------------------------------------------------------------------
(* src/tracking.py *)

MaxPicks == 2      \* log_pick calls in a run
MaxClock == 3      \* the clock stops here
TicksPerDay == 2   \* clock ticks in the day of timedelta(days=1)

NullV == [k |-> "null", v |-> 0]

NoOp == [op |-> "none"]
NoReport == [kind |-> "none"]

\* _init_db on a fresh database file: an empty picks table
TrackInit ==
    /\ picks = <<>>
    /\ seq = 0
    /\ now = 1
    /\ lastOp = NoOp
    /\ report = NoReport

\* Arguments of log_pick.  log_pick stores whatever line it is given; the
\* second pick was taken at one of the closing lines below, so that it can
\* close exactly where it was taken (CLV 0).
LogArgs ==
    {[sport |-> "nba", away_team |-> "LAL", home_team |-> "SAS",
      play_side |-> "HOME", bet_type |-> "spread", line_taken |-> -4000,
      odds_taken |-> -110, model_spread |-> -6500, market_spread |-> -4000,
      edge_points |-> 2500, confidence |-> "STRONG", units |-> 1000,
      notes |-> "Spurs 11-0 run"],
     [sport |-> "ncaab", away_team |-> "Gonzaga", home_team |-> "Duke",
      play_side |-> "AWAY", bet_type |-> "total_over", line_taken |-> -5500,
      odds_taken |-> 145, model_spread |-> -7625, market_spread |-> -5500,
      edge_points |-> 2125, confidence |-> "MODERATE", units |-> 1250,
      notes |-> ""]}

\* Arguments of update_result
ClosingLines == {-5500, -5333}
Results == {"win", "loss", "push"}

\* The row INSERT INTO picks writes: the 14 columns of the statement, the
\* AUTOINCREMENT id and the column defaults of _init_db for the rest
MutNewRow(id, ts, a) ==
    [id |-> id, timestamp |-> ts, sport |-> a.sport, away_team |-> a.away_team,
     home_team |-> a.home_team, play_side |-> a.play_side, bet_type |-> a.bet_type,
     line_taken |-> a.line_taken, odds_taken |-> a.odds_taken,
     closing_line |-> NullV, model_spread |-> a.model_spread,
     market_spread |-> a.market_spread, edge_points |-> a.edge_points,
     confidence |-> a.confidence, units |-> a.units, result |-> "pending",
     profit_units |-> -a.units, clv |-> 0, notes |-> a.notes]
NewRow(id, ts, a) ==
    [id |-> id, timestamp |-> ts, sport |-> a.sport, away_team |-> a.away_team,
     home_team |-> a.home_team, play_side |-> a.play_side, bet_type |-> a.bet_type,
     line_taken |-> a.line_taken, odds_taken |-> a.odds_taken,
     closing_line |-> NullV, model_spread |-> a.model_spread,
     market_spread |-> a.market_spread, edge_points |-> a.edge_points,
     confidence |-> a.confidence, units |-> a.units, result |-> "pending",
     profit_units |-> 0, clv |-> 0, notes |-> a.notes]

\* log_pick: one INSERT; returns cursor.lastrowid.  The call takes time, so
\* the next reading of the clock is later than the timestamp it wrote.
log_pick(a) ==
    /\ Len(picks) < MaxPicks
    /\ now <= MaxClock
    /\ picks' = Append(picks, NewRow(seq + 1, now, a))
    /\ seq' = seq + 1
    /\ now' = now + 1
    /\ lastOp' = [op |-> "log_pick", pick_id |-> seq + 1, found |-> TRUE]
    /\ report' = NoReport
    /\ UNCHANGED notTrackVars

\* lines 171-172 and 188: clv = closing_line - line_taken, stored round(clv, 2)
MutStoredClv(closing_line, line_taken) == Round2(line_taken - closing_line)
StoredClv(closing_line, line_taken) == Round2(closing_line - line_taken)

\* lines 174-183 and 188: the profit of a graded pick, stored round(profit, 2)
MutStoredProfit(result, odds_taken, units) ==
    IF result = "win"
        THEN RoundHalfEven(units * 100, Abs(odds_taken) * 10) * 10
    ELSE IF result = "loss" THEN Round2(-units)
    ELSE 0
StoredProfit(result, odds_taken, units) ==
    IF result = "win"
        THEN IF odds_taken > 0
                THEN RoundHalfEven(units * odds_taken, 1000) * 10
                ELSE RoundHalfEven(units * 100, Abs(odds_taken) * 10) * 10
    ELSE IF result = "loss" THEN Round2(-units)
    ELSE 0

\* SELECT * FROM picks WHERE id = ?: the index of the row, 0 when there is none
RowOf(pick_id) ==
    IF \E i \in 1..Len(picks) : picks[i].id = pick_id
        THEN CHOOSE i \in 1..Len(picks) : picks[i].id = pick_id
        ELSE 0

\* The row UPDATE picks SET closing_line, result, profit_units, clv writes
GradedRow(row, closing_line, result) ==
    [row EXCEPT !.closing_line = Num(closing_line),
                !.result = result,
                !.profit_units = StoredProfit(result, row.odds_taken, row.units),
                !.clv = StoredClv(closing_line, row.line_taken)]

\* (the UPDATE without its WHERE id = ?: every row is written)
MutUpdateResult(pick_id, closing_line, result) ==
    LET i == RowOf(pick_id)
    IN  /\ picks' = IF i = 0 THEN picks
                    ELSE [k \in 1..Len(picks) |-> GradedRow(picks[k], closing_line, result)]
        /\ lastOp' = [op |-> "update_result", pick_id |-> pick_id, found |-> i # 0]
        /\ report' = NoReport
        /\ UNCHANGED <<seq, now>>
        /\ UNCHANGED notTrackVars

\* update_result: SELECT the row, return when there is none, else one UPDATE
\* and a commit.  Nothing looks at the row's current result.
update_result(pick_id, closing_line, result) ==
    LET i == RowOf(pick_id)
    IN  /\ picks' = IF i = 0 THEN picks
                    ELSE [picks EXCEPT ![i] = GradedRow(picks[i], closing_line, result)]
        /\ lastOp' = [op |-> "update_result", pick_id |-> pick_id, found |-> i # 0]
        /\ report' = NoReport
        /\ UNCHANGED <<seq, now>>
        /\ UNCHANGED notTrackVars

\* Arguments of get_performance_report; "None" is Python's None
SportFilters == {"None", "nba", "ncaab"}
DaysFilters == {0, 1}     \* 0 stands for None and for 0: both are falsy

\* lines 225-232: the WHERE clause of the report
MutReportWhere(row, sport, days) ==
    /\ sport # "None" => row.sport = sport
    /\ days # 0 => row.timestamp > now - days * TicksPerDay
ReportWhere(row, sport, days) ==
    /\ row.result # "pending"
    /\ sport # "None" => row.sport = sport
    /\ days # 0 => row.timestamp > now - days * TicksPerDay

\* _query_picks: the selected rows as PickRecords, ORDER BY timestamp ASC.
\* Timestamps grow with the rowid, so this is the table order; NULL (and 0)
\* become 0 by "r[9] or 0".
QueryPicks(sport, days) ==
    LET sel == SelectSeq(picks, LAMBDA row : ReportWhere(row, sport, days))
    IN  [i \in 1..Len(sel) |->
            [sel[i] EXCEPT !.closing_line =
                IF sel[i].closing_line.k = "null" THEN 0 ELSE sel[i].closing_line.v]]

RECURSIVE SumSeq(_)
\* sum(xs) of a list of numbers
SumSeq(xs) == IF Len(xs) = 0 THEN 0 ELSE SumSeq(SubSeq(xs, 1, Len(xs) - 1)) + xs[Len(xs)]

\* the lists [p.units for p in ps], [p.profit_units ...], [p.clv ...]
UnitsOf(ps) == [i \in 1..Len(ps) |-> ps[i].units]
ProfitsOf(ps) == [i \in 1..Len(ps) |-> ps[i].profit_units]
ClvsOf(ps) == [i \in 1..Len(ps) |-> ps[i].clv]

CountOver(ps, P(_)) == Cardinality({i \in 1..Len(ps) : P(ps[i])})

RECURSIVE MutStreakFrom(_, _, _, _)
MutStreakFrom(ps, i, streak_type, streak) ==
    IF i = 0 THEN [type |-> streak_type, n |-> streak]
    ELSE IF streak_type = "" THEN MutStreakFrom(ps, i - 1, ps[i].result, 1)
    ELSE IF ps[i].result = streak_type THEN MutStreakFrom(ps, i - 1, streak_type, streak + 1)
    ELSE [type |-> streak_type, n |-> streak]
RECURSIVE StreakFrom(_, _, _, _)
\* lines 263-275: the loop over reversed(picks), from index i downwards
StreakFrom(ps, i, streak_type, streak) ==
    IF i = 0 THEN [type |-> streak_type, n |-> streak]
    ELSE IF ps[i].result = "push" THEN StreakFrom(ps, i - 1, streak_type, streak)
    ELSE IF streak_type = "" THEN StreakFrom(ps, i - 1, ps[i].result, 1)
    ELSE IF ps[i].result = streak_type THEN StreakFrom(ps, i - 1, streak_type, streak + 1)
    ELSE [type |-> streak_type, n |-> streak]

\* lines 252-261: by_confidence, a dict keyed by the tiers that occur
ByConfidence(ps) ==
    [tier \in {ps[i].confidence : i \in 1..Len(ps)} |->
        LET of == SelectSeq(ps, LAMBDA p : p.confidence = tier)
        IN  [picks |-> Len(of),
             wins |-> CountOver(of, LAMBDA p : p.result = "win"),
             profit |-> SumSeq(ProfitsOf(of))]]

\* lines 243 and 283: units_wagered of the report, round(sum of units, 1)
UnitsWagered(ps) == Round1(SumSeq(UnitsOf(ps)))

\* get_performance_report: the dict it returns.  Percentages are held in
\* thousandths of a percent.
PerformanceReport(sport, days) ==
    LET ps == QueryPicks(sport, days)
        wins == CountOver(ps, LAMBDA p : p.result = "win")
        losses == CountOver(ps, LAMBDA p : p.result = "loss")
        pushes == CountOver(ps, LAMBDA p : p.result = "push")
        units_wagered == SumSeq(UnitsOf(ps))
        units_profit == SumSeq(ProfitsOf(ps))
        clv_values == SelectSeq(ps, LAMBDA p : p.clv # 0)
        clv_sum == SumSeq(ClvsOf(clv_values))
        clv_positive == CountOver(clv_values, LAMBDA p : p.clv > 0)
        st == StreakFrom(ps, Len(ps), "", 0)
    IN  IF Len(ps) = 0
            THEN [kind |-> "empty", total_picks |-> 0, message |-> "No graded picks yet"]
        ELSE [kind |-> "report",
              total_picks |-> wins + losses + pushes,
              wins |-> wins,
              losses |-> losses,
              pushes |-> pushes,
              win_rate |-> IF wins + losses > 0
                              THEN RoundHalfEven(wins * 1000, wins + losses) * 100
                              ELSE 0,
              units_wagered |-> UnitsWagered(ps),
              units_profit |-> Round2(units_profit),
              roi_pct |-> IF units_wagered > 0
                             THEN RoundHalfEven(units_profit * 10000, units_wagered) * 10
                             ELSE 0,
              avg_clv |-> IF Len(clv_values) > 0
                             THEN RoundHalfEven(clv_sum, Len(clv_values) * 10) * 10
                             ELSE 0,
              clv_positive_rate |-> IF Len(clv_values) > 0
                                       THEN RoundHalfEven(clv_positive * 1000, Len(clv_values)) * 100
                                       ELSE 0,
              by_confidence |-> ByConfidence(ps),
              streak |-> IF st.n > 0
                            THEN ToString(st.n) \o (IF st.type = "win" THEN "W" ELSE "L")
                            ELSE "0"]

get_performance_report(sport, days) ==
    /\ report' = PerformanceReport(sport, days)
    /\ lastOp' = [op |-> "get_performance_report", sport |-> sport, days |-> days]
    /\ UNCHANGED <<picks, seq, now>>
    /\ UNCHANGED notTrackVars

\* Time passes between two calls
Tick ==
    /\ now < MaxClock
    /\ now' = now + 1
    /\ lastOp' = NoOp
    /\ report' = NoReport
    /\ UNCHANGED <<picks, seq>>
    /\ UNCHANGED notTrackVars

LogPick == \E a \in LogArgs : log_pick(a)
UpdateResult ==
    \E pick_id \in 1..(MaxPicks + 1), closing_line \in ClosingLines, result \in Results :
        update_result(pick_id, closing_line, result)
GetPerformanceReport ==
    \E sport \in SportFilters, days \in DaysFilters : get_performance_report(sport, days)

TrackNext == LogPick \/ UpdateResult \/ GetPerformanceReport \/ Tick

-----------------------------------------------------------------------------
(* src/engine/edge.py: rank_edges *)

MaxEdges == 3      \* length of the list passed to rank_edges

\* EdgeResult.edge_abs
edge_abs(e) == Abs(e.spread_edge)

\* line 312: playable = [e for e in edges if e.is_playable], a new list
MutPlayableOf(es) == es
PlayableOf(es) == SelectSeq(es, LAMBDA e : e.is_playable)

\* list.sort(key=..., reverse=True) is stable: an element goes behind every
\* element whose key is not smaller than its own.  The sort is modelled as
\* the insertion of the elements in list order.
MutInsertByEdgeAbs(sorted, e) ==
    LET before == {k \in 1..Len(sorted) : \A j \in 1..k : edge_abs(sorted[j]) > edge_abs(e)}
        n == Cardinality(before)
    IN  SubSeq(sorted, 1, n) \o <<e>> \o SubSeq(sorted, n + 1, Len(sorted))
InsertByEdgeAbs(sorted, e) ==
    LET before == {k \in 1..Len(sorted) : \A j \in 1..k : edge_abs(sorted[j]) >= edge_abs(e)}
        n == Cardinality(before)
    IN  SubSeq(sorted, 1, n) \o <<e>> \o SubSeq(sorted, n + 1, Len(sorted))

RECURSIVE SortByEdgeAbs(_)
\* line 313: playable.sort(key=lambda e: e.edge_abs, reverse=True)
SortByEdgeAbs(es) ==
    IF Len(es) = 0 THEN <<>>
    ELSE InsertByEdgeAbs(SortByEdgeAbs(SubSeq(es, 1, Len(es) - 1)), es[Len(es)])

\* line 314: playable[:max_plays] for max_plays >= 0
Truncate(es, n) == SubSeq(es, 1, IF n < Len(es) THEN n ELSE Len(es))

rank_edges(es, n) == Truncate(SortByEdgeAbs(PlayableOf(es)), n)

\* The EdgeResults a caller can hold: what compute_edge returned for a game
EdgeOf(sport, home, away, model_spread, market_spread) ==
    compute_edge(sport,
        [kind |-> "call",
         away_rating |-> Rating(away, 1000),
         home_rating |-> Rating(home, 5000),
         model_spread_home |-> Num(model_spread), model_total |-> Num(225000),
         market_spread_home |-> Num(market_spread), market_total |-> Num(222500),
         home_implied_prob |-> Num(620), injury_impact |-> Num(0),
         injury_summary_away |-> "No significant injuries",
         injury_summary_home |-> "No significant injuries"]).res

TeamOf(key) == CHOOSE t \in TeamIds : t.key = key

\* Two playable edges of 3.5 and -3.5, two of 2.0, one of 1.46 (below the
\* nba minimum) and a quarantined one
EdgePool ==
    {EdgeOf("nba", TeamOf("SAS"), TeamOf("LAL"), 6500, 3000),
     EdgeOf("nba", TeamOf("LAL"), TeamOf("SAS"), -6500, -3000),
     EdgeOf("nba", TeamOf("SAS"), TeamOf("LAL"), 2000, 0),
     EdgeOf("ncaab", TeamOf("Duke"), TeamOf("Gonzaga"), 2000, 0),
     EdgeOf("nba", TeamOf("SAS"), TeamOf("LAL"), 1460, 0),
     EdgeOf("nba", TeamOf("SAS"), TeamOf("LAL"), 6500, -4000)}

MaxPlaysArgs == {0, 1, 2, 5}

NoList == <<"none">>

RankInit ==
    /\ edges = <<>>
    /\ max_plays = -1
    /\ ranked = NoList

\* The caller collects one more EdgeResult (all_edges.append(edge))
AppendEdge ==
    /\ Len(edges) < MaxEdges
    /\ \E e \in EdgePool :
        /\ \A i \in 1..Len(edges) : edges[i] # e
        /\ edges' = Append(edges, e)
    /\ max_plays' = -1
    /\ ranked' = NoList
    /\ UNCHANGED notRankVars

\* rank_edges(edges, n): the list passed is read, never written
RankEdges ==
    /\ \E n \in MaxPlaysArgs :
        /\ max_plays' = n
        /\ ranked' = rank_edges(edges, n)
    /\ edges' = edges
    /\ UNCHANGED notRankVars

\* The caller starts a new list
NewList ==
    /\ edges # <<>>
    /\ edges' = <<>>
    /\ max_plays' = -1
    /\ ranked' = NoList
    /\ UNCHANGED notRankVars

RankNext == AppendEdge \/ RankEdges \/ NewList

-----------------------------------------------------------------------------
(* src/config.py RatingWeights and src/ratings.py RatingEngine *)

\* Weights are held in ten-thousandths: 0.55 is 5500.
Weights(season, last_15, last_5, last_game) ==
    [season |-> season, last_15 |-> last_15, last_5 |-> last_5, last_game |-> last_game]
NBA_WEIGHTS == Weights(5500, 2500, 1500, 500)
NCAAB_WEIGHTS == Weights(6000, 2200, 1300, 500)

\* RatingWeights.validate: the assert passes when abs(total - 1.0) < 0.001
\* (with assertions enabled, as the interpreter runs by default)
MutValidateOk(w) == Abs(w.season + w.last_15 + w.last_5 + w.last_game - 10000) < 600
ValidateOk(w) == Abs(w.season + w.last_15 + w.last_5 + w.last_game - 10000) < 10

\* The weights arguments of RatingEngine(...): None or a RatingWeights
NoWeights == [given |-> FALSE, w |-> Weights(0, 0, 0, 0)]
Given(w) == [given |-> TRUE, w |-> w]
\* sums 1.0, 1.0005, 1.001, 0.9985 and 0.95
WeightsArgs ==
    {NoWeights,
     Given(Weights(5000, 3000, 1500, 500)),
     Given(Weights(5500, 2500, 1500, 505)),
     Given(Weights(5500, 2500, 1500, 510)),
     Given(Weights(5485, 2500, 1500, 500)),
     Given(Weights(5500, 2500, 1500, 0))}

\* "arg or DEFAULT": a RatingWeights object is always truthy
OrDefault(arg, default) == IF arg.given THEN arg.w ELSE default

NoEngine == [state |-> "none", nba_arg |-> NoWeights, ncaab_arg |-> NoWeights, nba_weights |-> Weights(0, 0, 0, 0), ncaab_weights |-> Weights(0, 0, 0, 0)]

\* RatingEngine.__init__: both sets are stored, then validated, nba first;
\* a failed assert leaves the caller without an engine
NewEngine(nba_arg, ncaab_arg) ==
    LET nba_weights == OrDefault(nba_arg, NBA_WEIGHTS)
        ncaab_weights == OrDefault(ncaab_arg, NCAAB_WEIGHTS)
    IN  IF ValidateOk(nba_weights) /\ ValidateOk(ncaab_weights)
            THEN [state |-> "ok", nba_arg |-> nba_arg, ncaab_arg |-> ncaab_arg,
                  nba_weights |-> nba_weights, ncaab_weights |-> ncaab_weights]
            ELSE [NoEngine EXCEPT !.state = "failed", !.nba_arg = nba_arg, !.ncaab_arg = ncaab_arg]

\* One time window of a team: TeamMetrics (net_rating, off_rating,
\* def_rating, pace) or NCAABTeamMetrics (adj_net, adj_off, adj_def, tempo),
\* or None
Metrics(net, off, def, pace) == [present |-> TRUE, net |-> net, off |-> off, def |-> def, pace |-> pace]
NoMetrics == [present |-> FALSE, net |-> 0, off |-> 0, def |-> 0, pace |-> 0]

\* "x.metric if x else fallback"
MutWindowOr(window, metric, fallback) == IF window.present THEN window[metric] ELSE 0
WindowOr(window, metric, fallback) == IF window.present THEN window[metric] ELSE fallback

\* w1*a + w2*b + w3*c + w4*d rounded to two decimals (weights in
\* ten-thousandths, values and result in thousandths)
Weighted4(w1, a, w2, b, w3, c, w4, d) ==
    RoundHalfEven(w1 * a + w2 * b + w3 * c + w4 * d, 100000) * 10

\* The PowerRating compute_nba_ratings builds for one team with season data
NbaRating(w, abbr, prof) ==
    LET s_net == prof.season.net
        l15_net == WindowOr(prof.last_15, "net", s_net)
        l5_net == WindowOr(prof.last_5, "net", l15_net)
        l1_net == WindowOr(prof.last_1, "net", l5_net)
        s_off == prof.season.off
        l15_off == WindowOr(prof.last_15, "off", s_off)
        l5_off == WindowOr(prof.last_5, "off", l15_off)
        l1_off == WindowOr(prof.last_1, "off", l5_off)
        s_def == prof.season.def
        l15_def == WindowOr(prof.last_15, "def", s_def)
        l5_def == WindowOr(prof.last_5, "def", l15_def)
        l1_def == WindowOr(prof.last_1, "def", l5_def)
        s_pace == prof.season.pace
        l15_pace == WindowOr(prof.last_15, "pace", s_pace)
        l5_pace == WindowOr(prof.last_5, "pace", l15_pace)
        l1_pace == WindowOr(prof.last_1, "pace", l5_pace)
    IN  [key |-> abbr, team_abbr |-> abbr, sport |-> "nba",
         season_net |-> Round2(s_net), last_15_net |-> Round2(l15_net),
         last_5_net |-> Round2(l5_net), last_1_net |-> Round2(l1_net),
         weighted_net |-> Weighted4(w.season, s_net, w.last_15, l15_net, w.last_5, l5_net, w.last_game, l1_net),
         weighted_off |-> Weighted4(w.season, s_off, w.last_15, l15_off, w.last_5, l5_off, w.last_game, l1_off),
         weighted_def |-> Weighted4(w.season, s_def, w.last_15, l15_def, w.last_5, l5_def, w.last_game, l1_def),
         weighted_pace |-> Weighted4(w.season, s_pace, w.last_15, l15_pace, w.last_5, l5_pace, w.last_game, l1_pace),
         trending_up |-> l15_net > s_net,
         hot_streak |-> l5_net > l15_net /\ l15_net > s_net,
         cooling_off |-> l5_net < l15_net /\ l15_net < s_net,
         regime_shift |-> Round2(l15_net - s_net)]

\* The PowerRating compute_ncaab_ratings builds: last_1 is read for the
\* last_1_net field only, and last_5 carries the weight last_5 + last_game
NcaabRating(w, name, prof) ==
    LET s_net == prof.season.net
        l15_net == WindowOr(prof.last_15, "net", s_net)
        l5_net == WindowOr(prof.last_5, "net", l15_net)
        l1_net == WindowOr(prof.last_1, "net", l5_net)
        s_off == prof.season.off
        l15_off == WindowOr(prof.last_15, "off", s_off)
        l5_off == WindowOr(prof.last_5, "off", l15_off)
        s_def == prof.season.def
        l15_def == WindowOr(prof.last_15, "def", s_def)
        l5_def == WindowOr(prof.last_5, "def", l15_def)
        s_tempo == prof.season.pace
        l15_tempo == WindowOr(prof.last_15, "pace", s_tempo)
        l5_tempo == WindowOr(prof.last_5, "pace", l15_tempo)
    IN  [key |-> name, team_abbr |-> TeamOf(name).team_abbr, sport |-> "ncaab",
         season_net |-> Round2(s_net), last_15_net |-> Round2(l15_net),
         last_5_net |-> Round2(l5_net),
         last_1_net |-> Round2(IF prof.last_1.present THEN l1_net ELSE l5_net),
         weighted_net |-> Weighted4(w.season, s_net, w.last_15, l15_net, w.last_5 + w.last_game, l5_net, 0, 0),
         weighted_off |-> Weighted4(w.season, s_off, w.last_15, l15_off, w.last_5 + w.last_game, l5_off, 0, 0),
         weighted_def |-> Weighted4(w.season, s_def, w.last_15, l15_def, w.last_5 + w.last_game, l5_def, 0, 0),
         weighted_pace |-> Weighted4(w.season, s_tempo, w.last_15, l15_tempo, w.last_5 + w.last_game, l5_tempo, 0, 0),
         trending_up |-> l15_net > s_net,
         hot_streak |-> l5_net > l15_net /\ l15_net > s_net,
         cooling_off |-> l5_net < l15_net /\ l15_net < s_net,
         regime_shift |-> Round2(l15_net - s_net)]

\* compute_nba_ratings / compute_ncaab_ratings: a team without season data
\* is passed over ("if not s: continue")
compute_nba_ratings(w, profiles) ==
    [abbr \in {a \in DOMAIN profiles : profiles[a].season.present} |->
        NbaRating(w, abbr, profiles[abbr])]
compute_ncaab_ratings(w, profiles) ==
    [name \in {a \in DOMAIN profiles : profiles[a].season.present} |->
        NcaabRating(w, name, profiles[name])]

\* The window metrics the stats clients deliver for a team (one decimal, as
\* the feeds publish them; no weighted sum of them is a rounding tie)
SeasonM == Metrics(3100, 113200, 110100, 100300)
Last15M == Metrics(6500, 116400, 109900, 101700)
Last5M == Metrics(-2300, 108600, 110900, 97500)
Last1M == Metrics(11900, 120200, 108300, 103700)

TeamProfile(has) ==
    [season |-> IF "season" \in has THEN SeasonM ELSE NoMetrics,
     last_15 |-> IF "last_15" \in has THEN Last15M ELSE NoMetrics,
     last_5 |-> IF "last_5" \in has THEN Last5M ELSE NoMetrics,
     last_1 |-> IF "last_1" \in has THEN Last1M ELSE NoMetrics]

Windows == {"season", "last_15", "last_5", "last_1"}

\* Profiles of two teams: the first with any windows, the second complete,
\* with the season only, or without season data
ProfilesOf(first, second) ==
    {[t \in {first, second} |-> IF t = first THEN TeamProfile(h1) ELSE TeamProfile(h2)] :
        h1 \in SUBSET Windows, h2 \in {Windows, {"season"}, {"last_15", "last_5"}}}

NoRatingCall == [sport |-> "none", profiles |-> <<>>]
NoRatings == <<>>

RatingInit ==
    /\ engine = NoEngine
    /\ rcall = NoRatingCall
    /\ ratings = NoRatings

\* engine = RatingEngine(nba_weights, ncaab_weights)
ConstructEngine ==
    /\ engine.state = "none"
    /\ \E nba_arg \in WeightsArgs, ncaab_arg \in WeightsArgs :
        engine' = NewEngine(nba_arg, ncaab_arg)
    /\ UNCHANGED <<rcall, ratings>>
    /\ UNCHANGED notRatingVars

\* engine.compute_nba_ratings(profiles), on an engine that exists
ComputeNbaRatings ==
    /\ engine.state = "ok"
    /\ \E profiles \in ProfilesOf("SAS", "LAL") :
        /\ rcall' = [sport |-> "nba", profiles |-> profiles]
        /\ ratings' = compute_nba_ratings(engine.nba_weights, profiles)
    /\ UNCHANGED engine
    /\ UNCHANGED notRatingVars

ComputeNcaabRatings ==
    /\ engine.state = "ok"
    /\ \E profiles \in ProfilesOf("Duke", "Gonzaga") :
        /\ rcall' = [sport |-> "ncaab", profiles |-> profiles]
        /\ ratings' = compute_ncaab_ratings(engine.ncaab_weights, profiles)
    /\ UNCHANGED engine
    /\ UNCHANGED notRatingVars

\* The caller lets go of the engine (or of the failed construction)
DropEngine ==
    /\ engine.state # "none"
    /\ engine' = NoEngine
    /\ rcall' = NoRatingCall
    /\ ratings' = NoRatings
    /\ UNCHANGED notRatingVars

RatingNext == ConstructEngine \/ ComputeNbaRatings \/ ComputeNcaabRatings \/ DropEngine

-----------------------------------------------------------------------------
(* src/data/injuries.py *)

\* STATUS_MISS_PROB in hundredths and ROLE_IMPACT in thousandths of a point
STATUS_MISS_PROB(status) ==
    CASE status = "out" -> 100
      [] status = "doubtful" -> 80
      [] status = "questionable" -> 45
      [] status = "probable" -> 15
      [] status = "healthy" -> 0
ROLE_IMPACT(role) ==
    CASE role = "star" -> 4000
      [] role = "starter" -> 2000
      [] role = "rotation" -> 1000
      [] role = "bench" -> 300

\* InjuryEntry.expected_impact: round(-1 * miss_prob * base, 2)
expected_impact(e) == RoundHalfEven(-STATUS_MISS_PROB(e.status) * ROLE_IMPACT(e.role), 1000) * 10

InjuryEntry(player, team, status, role, reason) ==
    [player_name |-> player, team |-> team, status |-> status, role |-> role, reason |-> reason]

\* list.remove(x): the list without its first element equal to x
MutRemoveFirst(list, x) == list
RemoveFirst(list, x) ==
    LET at == {i \in 1..Len(list) : list[i] = x}
        first == CHOOSE i \in at : \A j \in at : i <= j
    IN  IF at = {} THEN list
        ELSE SubSeq(list, 1, first - 1) \o SubSeq(list, first + 1, Len(list))

\* self.injuries.get(key, [])
ListOf(inj, key) == IF key \in DOMAIN inj THEN inj[key] ELSE <<>>
\* the dict inj with inj[key] = list
WithList(inj, key, list) ==
    [k \in DOMAIN inj \cup {key} |-> IF k = key THEN list ELSE inj[k]]

\* add_injury: the dict it leaves behind
add_injury(inj, player, team, status, role, reason) ==
    LET key == Upper(team)
        entry == InjuryEntry(player, key, status, role, reason)
        list == ListOf(inj, key)
        existing == SelectSeq(list, LAMBDA i : i.player_name = player)
        kept == IF Len(existing) > 0 THEN RemoveFirst(list, existing[1]) ELSE list
    IN  WithList(inj, key, Append(kept, entry))

remove_injury(inj, player, team) ==
    IF Upper(team) \in DOMAIN inj
        THEN WithList(inj, Upper(team),
                      SelectSeq(inj[Upper(team)], LAMBDA i : i.player_name # player))
        ELSE inj

clear_team(inj, team) == WithList(inj, Upper(team), <<>>)

clear_all == <<>>

RECURSIVE SumImpact(_)
\* sum(entry.expected_impact for entry in list)
SumImpact(list) ==
    IF Len(list) = 0 THEN 0
    ELSE SumImpact(SubSeq(list, 1, Len(list) - 1)) + expected_impact(list[Len(list)])

get_team_impact(inj, team) ==
    IF Upper(team) \notin DOMAIN inj THEN 0 ELSE SumImpact(inj[Upper(team)])

\* round(impact_b - impact_a, 2)
get_matchup_impact(inj, team_a, team_b) ==
    Round2(get_team_impact(inj, team_b) - get_team_impact(inj, team_a))

RECURSIVE load_from_dict(_, _)
\* load_from_dict: add_injury for every player of every team, in the order
\* of the dict; items is that order as one list
load_from_dict(inj, items) ==
    IF Len(items) = 0 THEN inj
    ELSE LET p == items[Len(items)]
         IN  add_injury(load_from_dict(inj, SubSeq(items, 1, Len(items) - 1)),
                        p.player, p.team, p.status, p.role, p.reason)

RECURSIVE SortedByRole(_)
\* sorted(entries, key=lambda x: ROLE_IMPACT[x.role], reverse=True): a stable
\* sort, entries of equal role impact keep their order
SortedByRole(list) ==
    IF Len(list) = 0 THEN <<>>
    ELSE LET top == CHOOSE i \in 1..Len(list) :
                        \A j \in 1..Len(list) :
                            \/ ROLE_IMPACT(list[j].role) < ROLE_IMPACT(list[i].role)
                            \/ ROLE_IMPACT(list[j].role) = ROLE_IMPACT(list[i].role) /\ i <= j
         IN  <<list[top]>> \o SortedByRole(SubSeq(list, 1, top - 1) \o SubSeq(list, top + 1, Len(list)))

\* get_summary: the entries in the order of its lines and the total of the
\* last line; without entries the text "No significant injuries"
NoSummary == [kind |-> "none", entries |-> <<>>, total |-> 0]
get_summary(inj, team) ==
    LET entries == ListOf(inj, Upper(team))
    IN  IF Len(entries) = 0 THEN [kind |-> "No significant injuries", entries |-> <<>>, total |-> 0]
        ELSE [kind |-> "lines", entries |-> SortedByRole(entries), total |-> get_team_impact(inj, team)]

\* Arguments of the calls
TeamArgs == {"SAS", "sas", "LAL"}
Players == {"Davis", "Reaves"}
StatusRoleArgs ==
    {<<"out", "star">>, <<"questionable", "bench">>, <<"probable", "star">>, <<"out", "rotation">>}

Item(team, player, status, role) ==
    [team |-> team, player |-> player, status |-> status, role |-> role, reason |-> ""]
\* dicts for load_from_dict: two teams; one player listed twice for a team;
\* the same team under two keys
LoadArgs ==
    {<<Item("SAS", "Reaves", "out", "star"), Item("LAL", "Davis", "questionable", "bench")>>,
     <<Item("LAL", "Davis", "out", "star"), Item("LAL", "Davis", "questionable", "bench")>>,
     <<Item("sas", "Davis", "questionable", "bench"), Item("SAS", "Davis", "out", "star")>>}

NoItems == <<>>
IOp(op, team, player, status, role, items) ==
    [op |-> op, team |-> team, player |-> player, status |-> status, role |-> role, items |-> items,
     summary |-> NoSummary]

\* InjuryTracker.__init__
InjuryInit ==
    /\ injuries = <<>>
    /\ iop = IOp("none", "", "", "", "", NoItems)

AddInjury ==
    /\ \E player \in Players, team \in TeamArgs, sr \in StatusRoleArgs :
        /\ injuries' = add_injury(injuries, player, team, sr[1], sr[2], "")
        /\ iop' = IOp("add_injury", team, player, sr[1], sr[2], NoItems)
    /\ UNCHANGED notInjuryVars

RemoveInjury ==
    /\ \E player \in Players, team \in TeamArgs :
        /\ injuries' = remove_injury(injuries, player, team)
        /\ iop' = IOp("remove_injury", team, player, "", "", NoItems)
    /\ UNCHANGED notInjuryVars

ClearTeam ==
    /\ \E team \in TeamArgs :
        /\ injuries' = clear_team(injuries, team)
        /\ iop' = IOp("clear_team", team, "", "", "", NoItems)
    /\ UNCHANGED notInjuryVars

ClearAll ==
    /\ injuries' = clear_all
    /\ iop' = IOp("clear_all", "", "", "", "", NoItems)
    /\ UNCHANGED notInjuryVars

LoadFromDict ==
    /\ \E items \in LoadArgs :
        /\ injuries' = load_from_dict(injuries, items)
        /\ iop' = IOp("load_from_dict", "", "", "", "", items)
    /\ UNCHANGED notInjuryVars

GetSummary ==
    /\ \E team \in TeamArgs :
        iop' = [IOp("get_summary", team, "", "", "", NoItems) EXCEPT !.summary = get_summary(injuries, team)]
    /\ UNCHANGED injuries
    /\ UNCHANGED notInjuryVars

InjuryNext == AddInjury \/ RemoveInjury \/ ClearTeam \/ ClearAll \/ LoadFromDict \/ GetSummary

-----------------------------------------------------------------------------
(* src/data/odds.py GameOdds, src/matchups.py and src/engine/matchups.py *)

MaxGames == 2      \* games on the board of one batch

\* One bookmaker's line of a game (the fields the consensus reads); 0 is
\* what the client stores for a market the book does not offer
Book(spread_home, total, ml_home) == [spread_home |-> spread_home, total |-> total, ml_home |-> ml_home]

\* sum(xs) / len(xs) if xs else 0.0 (the quotients of the model are exact)
Average(xs) == IF Len(xs) = 0 THEN 0 ELSE SumSeq(xs) \div Len(xs)

consensus_spread_home(books) ==
    Average(SelectSeq([i \in 1..Len(books) |-> books[i].spread_home], LAMBDA x : x # 0))
consensus_total(books) ==
    Average(SelectSeq([i \in 1..Len(books) |-> books[i].total], LAMBDA x : x # 0))

\* home_implied_prob: 0.5 without a moneyline, else the implied probability
\* of int(average moneyline), in thousandths
home_implied_prob(books) ==
    LET mls == SelectSeq([i \in 1..Len(books) |-> books[i].ml_home], LAMBDA x : x # 0)
        sum == SumSeq(mls)
        ml == IF sum >= 0 THEN sum \div Len(mls) ELSE -((-sum) \div Len(mls))
    IN  IF Len(mls) = 0 THEN 500
        ELSE IF ml > 0 THEN RoundHalfEven(100000, ml + 100)
        ELSE RoundHalfEven(Abs(ml) * 1000, Abs(ml) + 100)

\* _resolve_team_abbr: NBA_NAME_TO_ABBR.get(full_name, full_name[:3].upper())
\* for nba, the full name itself for ncaab
resolve_team_abbr(sport, full_name) ==
    IF sport # "nba" THEN full_name
    ELSE CASE full_name = "San Antonio Spurs" -> "SAS"
           [] full_name = "Los Angeles Lakers" -> "LAL"
           [] full_name = "Seattle SuperSonics" -> "SEA"
           [] OTHER -> full_name

\* One game of the batch: the arguments of its compute_edge call
GameCall(inj, home_abbr, away_abbr, home_rating, away_rating, books) ==
    LET injury_adj == get_matchup_impact(inj, home_abbr, away_abbr)
    IN  [kind |-> "call",
         away_rating |-> away_rating,
         home_rating |-> home_rating,
         model_spread_home |-> Num(compute_model_spread(home_rating, away_rating, home_abbr, injury_adj, 0)),
         model_total |-> Num(compute_model_total(home_rating, away_rating)),
         market_spread_home |-> Num(consensus_spread_home(books)),
         market_total |-> Num(consensus_total(books)),
         home_implied_prob |-> Num(home_implied_prob(books)),
         injury_impact |-> Num(injury_adj),
         injury_summary_away |-> "No significant injuries",
         injury_summary_home |-> "No significant injuries"]

\* all_edges.append(edge): the EdgeResult of the call (with the numbers the
\* pipeline passes, compute_edge raises nothing), kept with the position of
\* its game and the call that produced it
GameEdge(sport, i, c) == [game |-> i, call |-> c, edge |-> compute_edge(sport, c).res]

RECURSIVE compute_all_edges(_, _, _, _, _)
\* The loop over self._games from game i on: all_edges, each EdgeResult
\* tagged with the position of its game.  version "matchups" is
\* src/matchups.py (_compute_all_edges), "engine" is src/engine/matchups.py
\* (compute_all_edges), which has no test for the lines.
compute_all_edges(version, sport, rts, games, i) ==
    IF i > Len(games) THEN <<>>
    ELSE LET game == games[i]
             away_abbr == resolve_team_abbr(sport, game.away_team)
             home_abbr == resolve_team_abbr(sport, game.home_team)
             rest == compute_all_edges(version, sport, rts, games, i + 1)
         IN  IF away_abbr \notin DOMAIN rts \/ home_abbr \notin DOMAIN rts THEN rest
             ELSE IF /\ version = "matchups"
                     /\ consensus_spread_home(game.books) = 0
                     /\ consensus_total(game.books) = 0 THEN rest
             ELSE <<GameEdge(sport, i, GameCall(<<>>, home_abbr, away_abbr,
                                                rts[home_abbr], rts[away_abbr], game.books))>> \o rest

\* What refresh_data leaves in the analyzer: the ratings of the rated teams
\* (keyed as the rating engine keys them) and the games of the odds feed
RatingsOf(keys) ==
    [k \in keys |-> Rating(TeamOf(k), IF k \in {"SAS", "Duke"} THEN 5000 ELSE 1000)]
RatedTeams(sport) ==
    IF sport = "nba" THEN {{"SAS", "LAL"}, {"SAS"}} ELSE {{"Duke", "Gonzaga"}, {"Duke"}}

Game(home_team, away_team, books) == [home_team |-> home_team, away_team |-> away_team, books |-> books]
\* Games with a spread and a total from two books, with a total only, with no
\* line at all, and against a team the stats feed does not know
GamesOf(a, b, c) ==
    {Game(a, b, <<Book(4000, 222500, -150), Book(4500, 223500, -170)>>),
     Game(b, a, <<Book(0, 222500, 0)>>),
     Game(b, a, <<>>),
     Game(a, c, <<Book(-4000, 222500, -150)>>),
     Game(c, a, <<>>)}
GamePool(sport) ==
    IF sport = "nba" THEN GamesOf("San Antonio Spurs", "Los Angeles Lakers", "Seattle SuperSonics")
    ELSE GamesOf("Duke", "Gonzaga", "Drake")
\* The boards of at most MaxGames games
Boards(sport) == UNION {[1..n -> GamePool(sport)] : n \in 0..MaxGames}

BatchInit ==
    /\ analyzer = [version |-> "none", sport |-> "nba", ratings |-> <<>>, games |-> <<>>]
    /\ batch = [all_edges |-> <<>>, returned |-> <<>>]

\* src/matchups.py: MatchupAnalyzer(sport).run(max_plays): refresh_data, then
\* _compute_all_edges, which returns rank_edges(all_edges, max_plays)
RunMatchups ==
    /\ analyzer.version = "none"
    /\ \E sport \in Sports :
        \E keys \in RatedTeams(sport), games \in Boards(sport), n \in {1, 5} :
            LET all_edges == compute_all_edges("matchups", sport, RatingsOf(keys), games, 1)
            IN  /\ analyzer' = [version |-> "matchups", sport |-> sport,
                                ratings |-> RatingsOf(keys), games |-> games]
                /\ batch' = [all_edges |-> all_edges,
                             returned |-> rank_edges([k \in 1..Len(all_edges) |-> all_edges[k].edge], n)]
    /\ UNCHANGED notBatchVars

\* src/engine/matchups.py: MatchupAnalyzer(sport).compute_all_edges():
\* refresh_data, then the loop; all_edges is returned as it is
RunEngine ==
    /\ analyzer.version = "none"
    /\ \E sport \in Sports :
        \E keys \in RatedTeams(sport), games \in Boards(sport) :
            LET all_edges == compute_all_edges("engine", sport, RatingsOf(keys), games, 1)
            IN  /\ analyzer' = [version |-> "engine", sport |-> sport,
                                ratings |-> RatingsOf(keys), games |-> games]
                /\ batch' = [all_edges |-> all_edges,
                             returned |-> [k \in 1..Len(all_edges) |-> all_edges[k].edge]]
    /\ UNCHANGED notBatchVars

\* The caller is done with the batch and with its analyzer
DropAnalyzer ==
    /\ analyzer.version # "none"
    /\ analyzer' = [version |-> "none", sport |-> "nba", ratings |-> <<>>, games |-> <<>>]
    /\ batch' = [all_edges |-> <<>>, returned |-> <<>>]
    /\ UNCHANGED notBatchVars

BatchNext == RunMatchups \/ RunEngine \/ DropAnalyzer

-----------------------------------------------------------------------------
(* src/tracking.py used by several processes on one database file.  Every
   PickTracker call opens its own sqlite3 connection; a statement is one
   step.  SQLite gives each statement the committed table, lets one
   connection write at a time and makes the writer's table the committed one
   at commit. *)

MaxRows == 1       \* picks logged in the shared database
ProcIds == {1, 2}

NoLogArgs == [sport |-> "none", result |-> "none"]
IdleConn ==
    [pc |-> "idle", op |-> "none", a |-> NoLogArgs, pick_id |-> 0,
     closing_line |-> 0, result |-> "", row |-> NoLogArgs, seen |-> <<>>]
NoTxn == [owner |-> 0, rows |-> <<>>]

\* SELECT * FROM picks WHERE id = ? on a table: the index of the row or 0
FindRow(tbl, pick_id) ==
    IF \E i \in 1..Len(tbl) : tbl[i].id = pick_id
        THEN CHOOSE i \in 1..Len(tbl) : tbl[i].id = pick_id
        ELSE 0

\* UPDATE picks SET closing_line = ?, result = ?, profit_units = ?, clv = ?
\* WHERE id = ?: the four columns of the row with this id, in the table as it
\* is now, get the values update_result computed from the row it had read
MutUpdateRow(tbl, pick_id, graded) ==
    LET i == FindRow(tbl, pick_id)
    IN  IF i = 0 THEN tbl
        ELSE [tbl EXCEPT ![i].closing_line = graded.closing_line,
                         ![i].result = graded.result]
UpdateRow(tbl, pick_id, graded) ==
    LET i == FindRow(tbl, pick_id)
    IN  IF i = 0 THEN tbl
        ELSE [tbl EXCEPT ![i].closing_line = graded.closing_line,
                         ![i].result = graded.result,
                         ![i].profit_units = graded.profit_units,
                         ![i].clv = graded.clv]

\* INSERT INTO picks: the new row gets the next rowid; its timestamp grows
\* with the rowid
InsertRow(tbl, a) == Append(tbl, NewRow(Len(tbl) + 1, Len(tbl) + 1, a))

ConcInit ==
    /\ db = <<>>
    /\ wtxn = NoTxn
    /\ conns = [p \in ProcIds |-> IdleConn]
    /\ base = <<>>

InFlightLogs == Cardinality({p \in ProcIds : conns[p].op = "log_pick" /\ conns[p].pc # "done"})

\* A process calls log_pick: sqlite3.connect
StartLogPick(p) ==
    /\ conns[p].pc = "idle"
    /\ Len(db) + InFlightLogs < MaxRows
    /\ \E a \in LogArgs :
        conns' = [conns EXCEPT ![p] = [IdleConn EXCEPT !.pc = "insert", !.op = "log_pick", !.a = a]]
    /\ UNCHANGED <<db, wtxn, base>>
    /\ UNCHANGED notConcVars

\* log_pick: the INSERT opens the write transaction; it waits while another
\* connection holds it
InsertPick(p) ==
    /\ conns[p].pc = "insert"
    /\ wtxn.owner = 0
    /\ wtxn' = [owner |-> p, rows |-> InsertRow(db, conns[p].a)]
    /\ conns' = [conns EXCEPT ![p].pc = "commit"]
    /\ UNCHANGED <<db, base>>
    /\ UNCHANGED notConcVars

\* A process calls update_result: sqlite3.connect
StartUpdateResult(p) ==
    /\ conns[p].pc = "idle"
    /\ \E pick_id \in 1..(MaxRows + 1), closing_line \in ClosingLines, result \in {"win", "loss"} :
        conns' = [conns EXCEPT ![p] =
                    [IdleConn EXCEPT !.pc = "select", !.op = "update_result", !.pick_id = pick_id,
                                     !.closing_line = closing_line, !.result = result]]
    /\ UNCHANGED <<db, wtxn, base>>
    /\ UNCHANGED notConcVars

\* update_result lines 161-165: the SELECT reads the committed row; without
\* a row the call returns at once
SelectPick(p) ==
    /\ conns[p].pc = "select"
    /\ LET i == FindRow(db, conns[p].pick_id)
       IN  conns' = IF i = 0 THEN [conns EXCEPT ![p].pc = "done"]
                    ELSE [conns EXCEPT ![p].pc = "update", ![p].row = db[i]]
    /\ UNCHANGED <<db, wtxn, base>>
    /\ UNCHANGED notConcVars

\* update_result lines 167-189: clv and profit from the row that was read,
\* then the UPDATE, which opens the write transaction
UpdatePick(p) ==
    /\ conns[p].pc = "update"
    /\ wtxn.owner = 0
    /\ wtxn' = [owner |-> p,
                rows |-> UpdateRow(db, conns[p].pick_id,
                                   GradedRow(conns[p].row, conns[p].closing_line, conns[p].result))]
    /\ conns' = [conns EXCEPT ![p].pc = "commit"]
    /\ UNCHANGED <<db, base>>
    /\ UNCHANGED notConcVars

\* The write transaction is held by another connection for longer than the
\* connection's busy timeout: the statement raises sqlite3.OperationalError
\* (database is locked) and the call ends without writing
RaiseLocked(p) ==
    /\ conns[p].pc \in {"insert", "update"}
    /\ wtxn.owner \notin {0, p}
    /\ conns' = [conns EXCEPT ![p].pc = "raised"]
    /\ UNCHANGED <<db, wtxn, base>>
    /\ UNCHANGED notConcVars

\* conn.commit(): the writer's table becomes the committed table
Commit(p) ==
    /\ conns[p].pc = "commit"
    /\ wtxn.owner = p
    /\ db' = wtxn.rows
    /\ wtxn' = NoTxn
    /\ conns' = [conns EXCEPT ![p].pc = "done"]
    /\ UNCHANGED base
    /\ UNCHANGED notConcVars

\* A process calls get_performance_report: _query_picks connects
StartReport(p) ==
    /\ conns[p].pc = "idle"
    /\ Len(db) + InFlightLogs > 0
    /\ conns' = [conns EXCEPT ![p] = [IdleConn EXCEPT !.pc = "query", !.op = "get_performance_report"]]
    /\ UNCHANGED <<db, wtxn, base>>
    /\ UNCHANGED notConcVars

\* _query_picks: one SELECT, fetchall: the rows of the committed table; the
\* report is computed from them without touching the database again
QueryRows(p) ==
    /\ conns[p].pc = "query"
    /\ conns' = [conns EXCEPT ![p].pc = "done", ![p].seen = db]
    /\ UNCHANGED <<db, wtxn, base>>
    /\ UNCHANGED notConcVars

\* Every call in progress has ended; the processes go on to their next calls
AllEnded ==
    /\ \A p \in ProcIds : conns[p].pc \in {"idle", "done", "raised"}
    /\ \E p \in ProcIds : conns[p].pc # "idle"
NextCalls ==
    /\ AllEnded
    /\ conns' = [p \in ProcIds |-> IdleConn]
    /\ base' = db
    /\ UNCHANGED <<db, wtxn>>
    /\ UNCHANGED notConcVars

ConcNext ==
    \/ \E p \in ProcIds : StartLogPick(p)
    \/ \E p \in ProcIds : InsertPick(p)
    \/ \E p \in ProcIds : StartUpdateResult(p)
    \/ \E p \in ProcIds : SelectPick(p)
    \/ \E p \in ProcIds : UpdatePick(p)
    \/ \E p \in ProcIds : RaiseLocked(p)
    \/ \E p \in ProcIds : Commit(p)
    \/ \E p \in ProcIds : StartReport(p)
    \/ \E p \in ProcIds : QueryRows(p)
    \/ NextCalls

-----------------------------------------------------------------------------
(* Refresh cycles: MatchupAnalyzer.refresh_data over the stats clients *)

MaxDays == 2
MaxCycles == 2
\* At most this many requests of one refresh fail
MaxFailures == 1

\* cache_key of a request: f"team_stats_{measure_type}_{last_n_games}" of the
\* NBA client, f"bart_{start_date}_{end_date}" of the NCAAB client (dates as
\* day numbers, 0 for the empty string)
Key(kind, measure, a, b) == [kind |-> kind, measure |-> measure, a |-> a, b |-> b]
NbaKey(measure_type, last_n_games) == Key("team_stats", measure_type, last_n_games, 0)
BartKey(start_date, end_date) == Key("bart", "", start_date, end_date)

\* The requests of one get_all_team_profiles, by window
NbaWindowN(window) ==
    IF window = "season" THEN 0 ELSE IF window = "last_15" THEN 15
    ELSE IF window = "last_5" THEN 5 ELSE 1
NcaabWindows == {"season", "last_15", "last_5"}
NcaabKey(window, day) ==
    IF window = "season" THEN BartKey(0, 0)
    ELSE IF window = "last_15" THEN BartKey(day - 30, day)
    ELSE BartKey(day - 12, day)
KeysOf(sport, day) ==
    IF sport = "nba"
    THEN {NbaKey(m, NbaWindowN(w)) : m \in {"Advanced", "Base"}, w \in Windows}
    ELSE {NcaabKey(w, day) : w \in NcaabWindows}

\* Rows are named by the day the feed served them; NoRows is the empty list
NoRows == 0
Cached(cache, key) == \E e \in cache : e.key = key
CachedRows(cache, key) == (CHOOSE e \in cache : e.key = key).rows

\* _fetch_team_stats / _fetch_barttorvik_data: the cached rows if the key is
\* cached, [] if the request fails, else the rows of the day
FetchRows(cache, key, failed, day) ==
    IF Cached(cache, key) THEN CachedRows(cache, key)
    ELSE IF key \in failed THEN NoRows
    ELSE day
\* self._cache[cache_key] = result, for the requests that were answered
CacheAfter(cache, keys, failed, day) ==
    cache \cup {[key |-> k, rows |-> day] : k \in {q \in keys : ~Cached(cache, q) /\ q \notin failed}}
\* The keys session.get is called for
Requested(cache, keys) == {k \in keys : ~Cached(cache, k)}

\* The metrics of a team in the rows the feed serves on a day: the first
\* team's numbers move from day to day
WindowM(window) ==
    IF window = "season" THEN SeasonM ELSE IF window = "last_15" THEN Last15M
    ELSE IF window = "last_5" THEN Last5M ELSE Last1M
ServerMetrics(team, first, window, rows) ==
    LET m == WindowM(window)
        shift == IF team = first THEN (rows - 1) * 1000 ELSE 0
    IN  IF rows = NoRows THEN NoMetrics
        ELSE Metrics(m.net + shift, m.off + shift, m.def, m.pace)

\* NBAStatsClient.get_all_team_profiles: one profile per team of the season
\* rows, each window from the Advanced rows of its request
nba_team_profiles(cache, failed, day) ==
    LET rowsOf(w) == FetchRows(cache, NbaKey("Advanced", NbaWindowN(w)), failed, day)
        teams == IF rowsOf("season") = NoRows THEN {} ELSE {"SAS", "LAL"}
    IN  [t \in teams |-> [season |-> ServerMetrics(t, "SAS", "season", rowsOf("season")),
                           last_15 |-> ServerMetrics(t, "SAS", "last_15", rowsOf("last_15")),
                           last_5 |-> ServerMetrics(t, "SAS", "last_5", rowsOf("last_5")),
                           last_1 |-> ServerMetrics(t, "SAS", "last_1", rowsOf("last_1"))]]
\* NCAABStatsClient.get_all_team_profiles: one profile per team of any
\* window's rows; there is no last_1 request
ncaab_team_profiles(cache, failed, day) ==
    LET rowsOf(w) == FetchRows(cache, NcaabKey(w, day), failed, day)
        teams == IF \A w \in NcaabWindows : rowsOf(w) = NoRows THEN {} ELSE {"Duke", "Gonzaga"}
    IN  [t \in teams |-> [season |-> ServerMetrics(t, "Duke", "season", rowsOf("season")),
                           last_15 |-> ServerMetrics(t, "Duke", "last_15", rowsOf("last_15")),
                           last_5 |-> ServerMetrics(t, "Duke", "last_5", rowsOf("last_5")),
                           last_1 |-> NoMetrics]]

\* What one refresh_data used: per window the rows its metrics were parsed from
UsedRows(sport, cache, failed, day) ==
    [w \in Windows |->
        IF sport = "nba" THEN FetchRows(cache, NbaKey("Advanced", NbaWindowN(w)), failed, day)
        ELSE IF w \in NcaabWindows THEN FetchRows(cache, NcaabKey(w, day), failed, day)
        ELSE NoRows]

NoPipeline ==
    [sport |-> "none", cache |-> {}, cycles |-> 0, requested |-> {}, used |-> [w \in Windows |-> NoRows],
     ratings |-> <<>>, games |-> 0]

\* refresh_data: the profiles of the stats client, self._ratings computed
\* from them with the default weights, self._games the board of the day
refresh_data(p, failed, day) ==
    LET keys == KeysOf(p.sport, day)
    IN  [sport |-> p.sport,
         cache |-> CacheAfter(p.cache, keys, failed, day),
         cycles |-> p.cycles + 1,
         requested |-> Requested(p.cache, keys),
         used |-> UsedRows(p.sport, p.cache, failed, day),
         ratings |-> IF p.sport = "nba"
                     THEN compute_nba_ratings(NBA_WEIGHTS, nba_team_profiles(p.cache, failed, day))
                     ELSE compute_ncaab_ratings(NCAAB_WEIGHTS, ncaab_team_profiles(p.cache, failed, day)),
         games |-> day]

RefreshInit ==
    /\ today = 1
    /\ pipeline = NoPipeline

\* analyzer = MatchupAnalyzer(sport)
ConstructAnalyzer ==
    /\ pipeline.sport = "none"
    /\ \E sport \in Sports : pipeline' = [NoPipeline EXCEPT !.sport = sport]
    /\ UNCHANGED today
    /\ UNCHANGED notRefreshVars

\* analyzer.refresh_data(), alone or as the first step of run()
RefreshData ==
    /\ pipeline.sport # "none"
    /\ pipeline.cycles < MaxCycles
    /\ \E failed \in SUBSET KeysOf(pipeline.sport, today) :
        /\ Cardinality(failed) <= MaxFailures
        /\ pipeline' = refresh_data(pipeline, failed, today)
    /\ UNCHANGED today
    /\ UNCHANGED notRefreshVars

\* A day passes: games are played and the feed serves new numbers
NextDay ==
    /\ today < MaxDays
    /\ today' = today + 1
    /\ UNCHANGED pipeline
    /\ UNCHANGED notRefreshVars

\* The process ends; the next one builds a new analyzer
DropAnalyzerOfDay ==
    /\ pipeline.sport # "none"
    /\ pipeline' = NoPipeline
    /\ UNCHANGED today
    /\ UNCHANGED notRefreshVars

RefreshNext == ConstructAnalyzer \/ RefreshData \/ NextDay \/ DropAnalyzerOfDay

-----------------------------------------------------------------------------
Init == EdgeInit /\ TrackInit /\ RankInit /\ RatingInit /\ InjuryInit /\ BatchInit /\ ConcInit
        /\ RefreshInit

Next == EdgeNext \/ TrackNext \/ RankNext \/ RatingNext \/ InjuryNext \/ BatchNext \/ ConcNext
        \/ RefreshNext

\* The whole program
Spec == Init /\ [][Next]_vars

\* The edge calculator and the pick tracker share no state; each is checked
\* with the other one at rest
SpecEdge == Init /\ [][EdgeNext]_vars
SpecTracker == Init /\ [][TrackNext]_vars
SpecRank == Init /\ [][RankNext]_vars
SpecRating == Init /\ [][RatingNext]_vars
SpecInjury == Init /\ [][InjuryNext]_vars
SpecBatch == Init /\ [][BatchNext]_vars
SpecConc == Init /\ [][ConcNext]_vars
SpecRefresh == Init /\ [][RefreshNext]_vars

-----------------------------------------------------------------------------
(* Properties of compute_edge, checked under SpecEdge *)

Returned == epc # "idle" /\ outcome = "returned"
\* _quarantined_result is the only place that writes this marker
IsQuarantined == Returned /\ res.injury_summary_away = "QUARANTINED"
IsEdge == Returned /\ res.injury_summary_away # "QUARANTINED"
PassedValidation ==
    /\ epc # "idle"
    /\ ValidateInputs(call.model_spread_home, call.model_total, call.market_spread_home, call.market_total, call.home_implied_prob, call.injury_impact, call.away_rating, call.home_rating).kind = "clean"
RawEdge == call.model_spread_home.v - call.market_spread_home.v
MinEdge == Thresholds(calcSport).min_edge_points

\* C1: every EdgeResult compute_edge returns has |spread_edge| <= 10, and a
\* call whose inputs pass validation with |model - market| > 10 returns a
\* quarantined result (is_playable false, play_side "NO PLAY"), not an edge.
C1_EdgeNeverExceedsCap ==
    /\ Returned => Abs(res.spread_edge) <= 10000
    /\ (PassedValidation /\ Abs(RawEdge) > 10000) =>
          /\ IsQuarantined
          /\ res.is_playable = FALSE
          /\ res.play_side = "NO PLAY"

\* C1 witness: model 6.5 against market -4.0 (edge 10.5) passed validation
\* and came back quarantined.
C1_Witness ==
    /\ PassedValidation
    /\ call.model_spread_home = Num(6500)
    /\ call.market_spread_home = Num(-4000)
    /\ IsQuarantined
    /\ res.is_playable = FALSE

\* C3: a call whose model or market spread exceeds 30 in absolute value
\* returns (raises nothing) a result with is_playable false, play_side
\* "NO PLAY" and a reason, whatever the other arguments are; and the spread
\* rule itself rejects no spread of exactly 30: a result carrying the spread
\* rule's reason had a spread strictly beyond 30.
C3_SpreadBeyond30Quarantined ==
    /\ (epc # "idle" /\ (FAbsGt(call.model_spread_home, 30000)
                         \/ FAbsGt(call.market_spread_home, 30000))) =>
          /\ outcome = "returned"
          /\ res.is_playable = FALSE
          /\ res.play_side = "NO PLAY"
          /\ res.injury_summary_home # ""
    /\ (IsQuarantined /\ res.injury_summary_home = "Model spread exceeds +/-30.0") =>
          FAbsGt(call.model_spread_home, 30000)
    /\ (IsQuarantined /\ res.injury_summary_home = "Market spread exceeds +/-30.0") =>
          FAbsGt(call.market_spread_home, 30000)

\* C3 witness: a model spread of 30.01 together with an implied probability
\* of None (which raises TypeError when validation gets that far) returned a
\* quarantined result.
C3_Witness ==
    /\ epc = "direct"
    /\ call.model_spread_home = Num(30010)
    /\ call.home_implied_prob = NoneV
    /\ outcome = "returned"
    /\ res.play_side = "NO PLAY"
    /\ res.injury_summary_home = "Model spread exceeds +/-30.0"

C5_HomeFavoredPlaysHome ==
    /\ (/\ epc = "pipeline"
        /\ calcSport = "nba"
        /\ call.home_rating.weighted_net = 5000
        /\ call.away_rating.weighted_net = 1000
        /\ call.injury_impact = Num(0)
        /\ call.market_spread_home = Num(3000)) =>
          /\ call.model_spread_home = Num(6500)
          /\ IsEdge
          /\ res.spread_edge = 3500
          /\ res.is_playable = TRUE
          /\ res.play_side = "HOME"
    /\ (epc = "pipeline" /\ IsEdge /\ RawEdge >= MinEdge) => res.play_side = "HOME"

\* C6 as stated: in a result that is not quarantined, is_playable is true
\* exactly when the absolute value of the result's spread_edge field is at
\* least min_edge_points of the calculator's sport.
C6_PlayableIffFieldAtLeastMin ==
    IsEdge => (res.is_playable <=> Abs(res.spread_edge) >= MinEdge)

\* C6 amended: in a result that is not quarantined, is_playable is true
\* exactly when |model_spread_home - market_spread_home|, before rounding, is
\* at least min_edge_points (1.5 for nba, 2.0 for ncaab); the spread_edge
\* field is that difference rounded to one decimal.
C6_PlayableIffRawEdgeAtLeastMin ==
    IsEdge =>
        /\ res.is_playable <=> Abs(RawEdge) >= MinEdge
        /\ MinEdge = (IF calcSport = "nba" THEN 1500 ELSE 2000)
        /\ res.spread_edge = Round1(RawEdge)

\* C6 witness: an edge of 1.46 (nba) is not playable although its
\* spread_edge field reads 1.5.
C6_Witness ==
    /\ IsEdge
    /\ calcSport = "nba"
    /\ RawEdge = 1460
    /\ res.spread_edge = 1500
    /\ res.is_playable = FALSE

-----------------------------------------------------------------------------
(* Properties of the pick tracker, checked under SpecTracker *)

Graded(row) == row.result # "pending"
Rows == 1..Len(picks)

\* C2: a pick is graded at most once: once a pick's result is no longer
\* "pending", no later update_result call (the call has no way to mark a
\* correction) changes its closing_line, result, profit_units or clv.
C2_GradedAtMostOnce ==
    [][\A i \in Rows :
          Graded(picks[i]) =>
             /\ picks'[i].closing_line = picks[i].closing_line
             /\ picks'[i].result = picks[i].result
             /\ picks'[i].profit_units = picks[i].profit_units
             /\ picks'[i].clv = picks[i].clv]_vars

\* C7: a log_pick call adds exactly one record, whose result is "pending"
\* with no closing line, profit 0 and CLV 0; it returns that record's id; the
\* id differs from every id handed out before; every record stored before is
\* unchanged.
C7_LogPickAppendsPending ==
    [][lastOp'.op = "log_pick" =>
          /\ Len(picks') = Len(picks) + 1
          /\ \A i \in Rows : picks'[i] = picks[i]
          /\ picks'[Len(picks')].result = "pending"
          /\ picks'[Len(picks')].closing_line = NullV
          /\ picks'[Len(picks')].profit_units = 0
          /\ picks'[Len(picks')].clv = 0
          /\ lastOp'.pick_id = picks'[Len(picks')].id
          /\ lastOp'.pick_id > seq
          /\ \A i \in Rows : picks[i].id # lastOp'.pick_id]_vars

\* C7 witness: log_pick has just returned the id of a second, pending record
\* while the first record stays graded.
C7_Witness ==
    /\ lastOp.op = "log_pick"
    /\ Len(picks) = 2
    /\ lastOp.pick_id = picks[2].id
    /\ picks[2].result = "pending"
    /\ picks[1].id # picks[2].id
    /\ Graded(picks[1])

ExactProfitNum(row) ==
    IF row.result = "win"
        THEN IF row.odds_taken > 0 THEN row.units * row.odds_taken ELSE row.units * 100
    ELSE IF row.result = "loss" THEN -row.units
    ELSE 0
ExactProfitDen(row) ==
    IF row.result = "win"
        THEN IF row.odds_taken > 0 THEN 100 ELSE Abs(row.odds_taken)
    ELSE 1

\* The four grading fields of a row were written together: a pending row has
\* none of them, a graded row has a closing line
WrittenTogether(row) ==
    /\ row.result = "pending" =>
          row.closing_line = NullV /\ row.profit_units = 0 /\ row.clv = 0
    /\ Graded(row) =>
          /\ row.closing_line.k = "num"
          /\ row.result \in Results
          /\ 2 * Abs(row.clv - (row.closing_line.v - row.line_taken)) <= 10

\* C9 as stated: the stored profit of a graded pick is units*odds/100 for a
\* win at odds > 0, units*100/|odds| for a win at odds < 0, -units for a loss
\* and 0 for a push, and the four grading fields are written in one update.
C9_ProfitIsExact ==
    \A i \in Rows :
        /\ Graded(picks[i]) =>
              picks[i].profit_units * ExactProfitDen(picks[i]) = ExactProfitNum(picks[i])
        /\ WrittenTogether(picks[i])

\* C9 amended: the stored profit of a graded pick is that amount rounded to
\* two decimals (a whole number of hundredths, at most half a hundredth from
\* units*odds/100, units*100/|odds|, -units or 0), and the four grading fields
\* are written together in one update.
C9_ProfitIsRounded ==
    \A i \in Rows :
        /\ Graded(picks[i]) =>
              /\ picks[i].profit_units % 10 = 0
              /\ 2 * Abs(picks[i].profit_units * ExactProfitDen(picks[i])
                         - ExactProfitNum(picks[i])) <= 10 * ExactProfitDen(picks[i])
        /\ WrittenTogether(picks[i])

\* C9 witness: update_result has graded a 1.0-unit win at -110 (stored 0.91)
\* next to a 1.25-unit win at +145 (stored 1.81).
C9_Witness ==
    /\ lastOp.op = "update_result" /\ lastOp.found
    /\ \E i \in Rows :
          /\ picks[i].result = "win" /\ picks[i].odds_taken = -110
          /\ picks[i].units = 1000 /\ picks[i].profit_units = 910
    /\ \E i \in Rows :
          /\ picks[i].result = "win" /\ picks[i].odds_taken = 145
          /\ picks[i].units = 1250 /\ picks[i].profit_units = 1810

\* The stored picks a report with the last call's filter is about: graded,
\* of the sport asked for, and newer than the cutoff of the days asked for
Matching ==
    {i \in Rows :
        /\ picks[i].result # "pending"
        /\ lastOp.sport # "None" => picks[i].sport = lastOp.sport
        /\ lastOp.days # 0 => picks[i].timestamp > now - lastOp.days * TicksPerDay}

RECURSIVE SumUnits(_)
SumUnits(S) == IF S = {} THEN 0 ELSE LET i == CHOOSE i \in S : TRUE IN picks[i].units + SumUnits(S \ {i})
RECURSIVE SumProfit(_)
SumProfit(S) == IF S = {} THEN 0 ELSE LET i == CHOOSE i \in S : TRUE IN picks[i].profit_units + SumProfit(S \ {i})

Reported == lastOp.op = "get_performance_report"

\* What C10 says of the counts: total_picks, and the win/loss/push record,
\* count exactly the matching graded picks; none gives total_picks = 0
ReportCountsMatching ==
    /\ Matching = {} <=> report.kind = "empty"
    /\ report.total_picks = Cardinality(Matching)
    /\ report.kind = "report" =>
          /\ report.wins = Cardinality({i \in Matching : picks[i].result = "win"})
          /\ report.losses = Cardinality({i \in Matching : picks[i].result = "loss"})
          /\ report.pushes = Cardinality({i \in Matching : picks[i].result = "push"})

\* C10 as stated: the report counts exactly the graded picks matching the
\* filter, and units_wagered and units_profit are the sums of units and of
\* profit_units over them.
C10_ReportSumsExact ==
    Reported =>
        /\ ReportCountsMatching
        /\ report.kind = "report" =>
              /\ report.units_wagered = SumUnits(Matching)
              /\ report.units_profit = SumProfit(Matching)

\* C10 amended: the report counts exactly the graded picks matching the
\* filter; units_wagered is the sum of their units rounded to one decimal and
\* units_profit the sum of their profit_units rounded to two decimals; with
\* no such pick total_picks = 0.
C10_ReportSumsRounded ==
    Reported =>
        /\ ReportCountsMatching
        /\ report.kind = "report" =>
              /\ report.units_wagered % 100 = 0
              /\ 2 * Abs(report.units_wagered - SumUnits(Matching)) <= 100
              /\ report.units_profit % 10 = 0
              /\ 2 * Abs(report.units_profit - SumProfit(Matching)) <= 10

\* C10 witness: a report for nba over the last day counted the one graded nba
\* pick and left out a pending pick and a graded pick of the other sport.
C10_Witness ==
    /\ Reported /\ report.kind = "report"
    /\ lastOp.sport = "nba" /\ lastOp.days = 1
    /\ report.total_picks = 1
    /\ Len(picks) = 2
    /\ \E i \in Rows : picks[i].sport = "nba" /\ Graded(picks[i])
    /\ \E i \in Rows : picks[i].sport = "ncaab"

\* The report get_performance_report() (no filter) returns in this state,
\* with the counts of an empty report read as 0
ReportNow == PerformanceReport("None", 0)
RecordOf(r, result) ==
    IF r.kind # "report" THEN 0
    ELSE IF result = "win" THEN r.wins
    ELSE IF result = "loss" THEN r.losses
    ELSE r.pushes
ProfitOf(r) == IF r.kind = "report" THEN r.units_profit ELSE 0

GradedRows == {i \in Rows : Graded(picks[i])}
RECURSIVE SumClv(_)
SumClv(S) == IF S = {} THEN 0 ELSE LET i == CHOOSE i \in S : TRUE IN picks[i].clv + SumClv(S \ {i})

\* update_result has just graded the pending pick of row i
JustGraded(i) ==
    /\ lastOp'.op = "update_result"
    /\ picks[i].result = "pending"
    /\ picks'[i].result # "pending"

\* C11: when update_result grades a pending pick, the report taken right
\* after differs from the report taken right before by that pick counted
\* once: the record grows by one in the pick's result and in no other,
\* units_profit grows by the pick's profit, and avg_clv is the mean of clv
\* over all graded picks (to the two decimals the report keeps).
C11_GradedPickReflectedOnce ==
    [][\A i \in Rows :
          JustGraded(i) =>
             /\ \A result \in Results :
                   RecordOf(ReportNow', result) =
                      RecordOf(ReportNow, result) + (IF picks'[i].result = result THEN 1 ELSE 0)
             /\ ProfitOf(ReportNow') = ProfitOf(ReportNow) + picks'[i].profit_units
             /\ 2 * Abs(ReportNow'.avg_clv * Cardinality(GradedRows') - SumClv(GradedRows)')
                   <= 10 * Cardinality(GradedRows')]_vars

-----------------------------------------------------------------------------
(* Properties of rank_edges, checked under SpecRank *)

Ranked == max_plays # -1
\* The position in the caller's list of an EdgeResult of that list
IndexIn(es, e) == CHOOSE i \in 1..Len(es) : es[i] = e
PlayableIn(es) == {i \in 1..Len(es) : es[i].is_playable}
InRanked(e) == \E j \in 1..Len(ranked) : ranked[j] = e

\* C12: rank_edges(edges, max_plays) with max_plays >= 0 returns edges of
\* the list, each once, all with is_playable true, in non-increasing order
\* of |spread_edge|, min(number of playable edges, max_plays) of them, and no
\* playable edge it leaves out has a strictly larger |spread_edge| than one
\* it returns.
C12_RankReturnsTopPlayable ==
    Ranked =>
        /\ \A j \in 1..Len(ranked) :
              /\ \E i \in 1..Len(edges) : edges[i] = ranked[j]
              /\ ranked[j].is_playable = TRUE
              /\ \A k \in 1..Len(ranked) : ranked[k] = ranked[j] => k = j
        /\ \A j \in 1..(Len(ranked) - 1) : edge_abs(ranked[j]) >= edge_abs(ranked[j + 1])
        /\ Len(ranked) = (IF Cardinality(PlayableIn(edges)) < max_plays
                             THEN Cardinality(PlayableIn(edges)) ELSE max_plays)
        /\ \A i \in PlayableIn(edges) :
              ~InRanked(edges[i]) =>
                  \A j \in 1..Len(ranked) : edge_abs(edges[i]) <= edge_abs(ranked[j])

\* C12 witness: rank_edges(edges, 1) on a list holding an edge that is not
\* playable and two playable ones returned the larger playable edge, which
\* was not the first of the list, and left the smaller one out.
C12_Witness ==
    /\ Ranked /\ max_plays = 1
    /\ Len(edges) = 3 /\ Len(ranked) = 1
    /\ Cardinality(PlayableIn(edges)) = 2
    /\ ranked[1] # edges[1]
    /\ \E i \in PlayableIn(edges) : edge_abs(edges[i]) < edge_abs(ranked[1])

\* C13: playable edges with equal |spread_edge| come out of rank_edges in
\* the order they had in the list passed; a second call with the same list
\* and max_plays returns the same list as the first; and no call reorders or
\* shortens the list passed.
C13_RankStableAndPure ==
    /\ [](Ranked =>
            \A j \in 1..Len(ranked), k \in 1..Len(ranked) :
                (j < k /\ edge_abs(ranked[j]) = edge_abs(ranked[k]))
                    => IndexIn(edges, ranked[j]) < IndexIn(edges, ranked[k]))
    /\ [][Ranked' =>
            /\ edges' = edges
            /\ (Ranked /\ max_plays' = max_plays) => ranked' = ranked]_vars

\* C13 witness: the list (2.0 nba, 2.0 ncaab, 3.5) came back as 3.5 first and
\* the two edges of 2.0 behind it in their list order.
C13_Witness ==
    /\ Ranked
    /\ Len(edges) = 3 /\ Len(ranked) = 3
    /\ ranked[1] = edges[3] /\ ranked[2] = edges[1] /\ ranked[3] = edges[2]
    /\ edge_abs(ranked[2]) = edge_abs(ranked[3])
    /\ edge_abs(ranked[1]) > edge_abs(ranked[2])

-----------------------------------------------------------------------------
(* Properties of the rating engine, checked under SpecRating *)

\* season + last_15 + last_5 + last_game is within 0.001 of 1.0
SumsToOne(w) == Abs(w.season + w.last_15 + w.last_5 + w.last_game - 10000) < 10
Computed == rcall.sport # "none"

\* C14: RatingEngine(nba, ncaab) validates both weight sets (an argument of
\* None standing for the built-in set): construction fails exactly when the
\* sum of either set differs from 1.0 by 0.001 or more, an engine that exists
\* holds the two sets it was given, ratings are only ever computed by an
\* engine whose two sets are valid, and the two built-in sets pass.
C14_InvalidWeightsFailFast ==
    /\ engine.state # "none" =>
          (engine.state = "failed" <=>
              \/ ~SumsToOne(OrDefault(engine.nba_arg, NBA_WEIGHTS))
              \/ ~SumsToOne(OrDefault(engine.ncaab_arg, NCAAB_WEIGHTS)))
    /\ engine.state = "ok" =>
          /\ engine.nba_weights = OrDefault(engine.nba_arg, NBA_WEIGHTS)
          /\ engine.ncaab_weights = OrDefault(engine.ncaab_arg, NCAAB_WEIGHTS)
    /\ Computed =>
          /\ engine.state = "ok"
          /\ SumsToOne(engine.nba_weights) /\ SumsToOne(engine.ncaab_weights)
    /\ (engine.state # "none" /\ ~engine.nba_arg.given /\ ~engine.ncaab_arg.given) =>
          engine.state = "ok"

\* C14 witness: RatingEngine(None, ncaab_weights) with ncaab weights summing
\* to 1.001 failed although the nba set, validated first, is the built-in one.
C14_Witness ==
    /\ engine.state = "failed"
    /\ engine.nba_arg = NoWeights
    /\ engine.ncaab_arg = Given(Weights(5500, 2500, 1500, 510))
    /\ ~Computed

\* The profile with every missing window filled in by the chain: last_15
\* from season, last_5 from last_15, last_1 from last_5
FilledIn(prof) ==
    LET f15 == IF prof.last_15.present THEN prof.last_15 ELSE prof.season
        f5 == IF prof.last_5.present THEN prof.last_5 ELSE f15
        f1 == IF prof.last_1.present THEN prof.last_1 ELSE f5
    IN  [season |-> prof.season, last_15 |-> f15, last_5 |-> f5, last_1 |-> f1]

RatingOfProfile(sport, t, prof) ==
    IF sport = "nba" THEN NbaRating(engine.nba_weights, t, prof)
    ELSE NcaabRating(engine.ncaab_weights, t, prof)

\* C15: a team is rated exactly when it has season data; the rating of a
\* rated team is the rating of the same team with every missing window
\* replaced along the chain last_1 <- last_5 <- last_15 <- season, for net,
\* off, def and pace alike, and its per-window net fields are the values the
\* chain resolves to (none of them the zero of a missing window).
C15_MissingWindowFallsBack ==
    Computed =>
        \A t \in DOMAIN rcall.profiles :
            LET prof == rcall.profiles[t]
                full == FilledIn(prof)
            IN  /\ t \in DOMAIN ratings <=> prof.season.present
                /\ t \in DOMAIN ratings =>
                      /\ ratings[t] = RatingOfProfile(rcall.sport, t, full)
                      /\ ratings[t].season_net = Round2(full.season.net)
                      /\ ratings[t].last_15_net = Round2(full.last_15.net)
                      /\ ratings[t].last_5_net = Round2(full.last_5.net)
                      /\ ratings[t].last_1_net = Round2(full.last_1.net)
                      /\ full.last_15.present /\ full.last_5.present /\ full.last_1.present

\* C15 witness: an nba team with season and last_15 data only got its
\* last_5 and last_1 values from last_15, next to a team without season data
\* that got no rating.
C15_Witness ==
    /\ Computed /\ rcall.sport = "nba"
    /\ rcall.profiles["SAS"] = TeamProfile({"season", "last_15"})
    /\ ~rcall.profiles["LAL"].season.present
    /\ DOMAIN ratings = {"SAS"}
    /\ ratings["SAS"].last_1_net = 6500
    /\ ratings["SAS"].weighted_off = 114640

-----------------------------------------------------------------------------
(* Properties of the injury tracker, checked under SpecInjury *)

\* The positions of a player in a team's list
EntriesOf(inj, key, player) ==
    {i \in 1..Len(ListOf(inj, key)) : ListOf(inj, key)[i].player_name = player}
NamesIn(inj, key) == {ListOf(inj, key)[i].player_name : i \in 1..Len(ListOf(inj, key))}

RECURSIVE SumOverPlayers(_, _, _)
\* The sum over a set of players of the impact of one entry of each
SumOverPlayers(inj, key, names) ==
    IF names = {} THEN 0
    ELSE LET n == CHOOSE n \in names : TRUE
             i == CHOOSE i \in EntriesOf(inj, key, n) : TRUE
         IN  expected_impact(inj[key][i]) + SumOverPlayers(inj, key, names \ {n})

\* C16: after any sequence of calls every team's list holds at most one
\* entry per player name, so that get_team_impact is the sum of one impact per
\* listed player; add_injury leaves exactly one entry of the (team, player),
\* with the status and role of the call, and leaves every other entry alone;
\* remove_injury leaves none.
C16_OneEntryPerPlayer ==
    /\ [](\A key \in DOMAIN injuries :
            /\ \A player \in NamesIn(injuries, key) :
                  Cardinality(EntriesOf(injuries, key, player)) = 1
            /\ get_team_impact(injuries, key) = SumOverPlayers(injuries, key, NamesIn(injuries, key)))
    /\ [][/\ iop'.op = "add_injury" =>
                LET key == Upper(iop'.team)
                    i == CHOOSE i \in EntriesOf(injuries', key, iop'.player) : TRUE
                IN  /\ Cardinality(EntriesOf(injuries', key, iop'.player)) = 1
                    /\ injuries'[key][i].status = iop'.status
                    /\ injuries'[key][i].role = iop'.role
                    /\ SelectSeq(injuries'[key], LAMBDA e : e.player_name # iop'.player)
                          = SelectSeq(ListOf(injuries, key), LAMBDA e : e.player_name # iop'.player)
                    /\ \A k \in DOMAIN injuries : k # key => injuries'[k] = injuries[k]
          /\ iop'.op = "remove_injury" =>
                EntriesOf(injuries', Upper(iop'.team), iop'.player) = {}]_vars

\* C16 witness: add_injury("Davis", "sas", questionable, bench) replaced the
\* entry of Davis (out, star) in the list of SAS, which also holds Reaves;
\* the team impact is -4.0 - 0.14.
C16_Witness ==
    /\ iop.op = "add_injury" /\ iop.team = "sas" /\ iop.player = "Davis"
    /\ Len(ListOf(injuries, "SAS")) = 2
    /\ injuries["SAS"][1] = InjuryEntry("Reaves", "SAS", "out", "star", "")
    /\ injuries["SAS"][2] = InjuryEntry("Davis", "SAS", "questionable", "bench", "")
    /\ get_team_impact(injuries, "sas") = -4140

-----------------------------------------------------------------------------
(* Properties of the batch evaluation, checked under SpecBatch *)

Ran == analyzer.version # "none"
\* Both teams of the game resolve to a rating of the analyzer
BothRated(game) ==
    /\ resolve_team_abbr(analyzer.sport, game.home_team) \in DOMAIN analyzer.ratings
    /\ resolve_team_abbr(analyzer.sport, game.away_team) \in DOMAIN analyzer.ratings
\* Some book of the game posts a spread or a total
LinePosted(game) ==
    \E i \in 1..Len(game.books) : game.books[i].spread_home # 0 \/ game.books[i].total # 0
EdgesForGame(i) == {k \in 1..Len(batch.all_edges) : batch.all_edges[k].game = i}

\* C17: a batch produces an EdgeResult for a game exactly when both of its
\* teams resolve to a rating and the game has a posted line, one per such
\* game and in the order of the games; every other game is skipped without
\* ending the batch.
C17_EdgeIffRatedAndPosted ==
    Ran =>
        /\ \A i \in 1..Len(analyzer.games) :
              /\ (EdgesForGame(i) # {}) <=> (BothRated(analyzer.games[i]) /\ LinePosted(analyzer.games[i]))
              /\ Cardinality(EdgesForGame(i)) <= 1
        /\ \A k \in 1..(Len(batch.all_edges) - 1) :
              batch.all_edges[k].game < batch.all_edges[k + 1].game

\* C20: for every game the pipeline evaluates, in either sport, the model
\* spread handed to the edge calculator is home weighted_net - away
\* weighted_net + the sport's home-court advantage + the injury
\* differential, rounded to one decimal, whatever the home team is called.
C20_HomeCourtCreditedToHome ==
    Ran =>
        \A k \in 1..Len(batch.all_edges) :
            LET c == batch.all_edges[k].call
            IN  c.model_spread_home =
                    Num(Round1(c.home_rating.weighted_net - c.away_rating.weighted_net
                               + HomeCourt(analyzer.sport) + c.injury_impact.v))

-----------------------------------------------------------------------------
(* The value bounds of _validate_inputs, checked under SpecEdge *)

Called == epc # "idle"
\* The implied probability, the injury differential or a rating of the call
\* is beyond its bound: 0.01 and 0.99, 12 and 25 in thousandths
BeyondBounds ==
    \/ call.home_implied_prob.k # "none"
          /\ (FLt(call.home_implied_prob, 10) \/ FGt(call.home_implied_prob, 990))
    \/ call.injury_impact.k # "none" /\ FAbsGt(call.injury_impact, 12000)
    \/ Abs(call.away_rating.weighted_net) > 25000
    \/ Abs(call.home_rating.weighted_net) > 25000
\* compute_edge returned a quarantined result
ReturnedQuarantined ==
    /\ outcome = "returned"
    /\ ~res.is_playable /\ res.play_side = "NO PLAY"
    /\ res.injury_summary_away = "QUARANTINED"
BoundsReasons ==
    {"Implied prob outside [0.01, 0.99]", "Injury impact exceeds +/-12.0",
     "Weighted net rating outside +/-25 range"}
\* The call passes numbers for the implied probability and the injury
\* differential
NumbersGiven == call.home_implied_prob.k # "none" /\ call.injury_impact.k # "none"

-----------------------------------------------------------------------------
(* Properties of interleaved PickTracker calls, checked under SpecConc *)

\* What one call does to a table when it runs alone
RunAlone(tbl, c) ==
    IF c.op = "log_pick" THEN InsertRow(tbl, c.a)
    ELSE IF c.op = "update_result"
        THEN LET i == FindRow(tbl, c.pick_id)
             IN  IF i = 0 THEN tbl
                 ELSE UpdateRow(tbl, c.pick_id, GradedRow(tbl[i], c.closing_line, c.result))
    ELSE tbl

\* The tables the calls that returned leave when they run one after the
\* other, in either order, on the table they began with
ReturnedCalls == {p \in ProcIds : conns[p].pc = "done"}
SerialTables ==
    IF ReturnedCalls = {} THEN {base}
    ELSE UNION {IF ReturnedCalls = {p} THEN {RunAlone(base, conns[p])}
                ELSE {RunAlone(RunAlone(base, conns[p]), conns[q]) : q \in ReturnedCalls \ {p}} :
                p \in ReturnedCalls}

\* The four grading columns of a row are those of a pending pick or those
\* of one update_result call
WholeRow(row) ==
    \/ /\ row.result = "pending"
       /\ row.closing_line = NullV /\ row.profit_units = 0 /\ row.clv = 0
    \/ /\ row.result # "pending"
       /\ row.closing_line.k = "num"
       /\ row.profit_units = StoredProfit(row.result, row.odds_taken, row.units)
       /\ row.clv = StoredClv(row.closing_line.v, row.line_taken)

\* C18: when PickTracker calls of two processes are interleaved statement by
\* statement, the table left when they have ended is the one some serial
\* order of the calls leaves, and no report reads a row with only part of
\* its grading columns written.
C18_CallsAreSerializable ==
    /\ AllEnded => db \in SerialTables
    /\ \A p \in ProcIds : \A i \in 1..Len(conns[p].seen) : WholeRow(conns[p].seen[i])

\* Two update_result calls on the same pick with different results, both of
\* which read the pending row before either wrote, have both returned
C18_Witness ==
    /\ \A p \in ProcIds :
          /\ conns[p].op = "update_result" /\ conns[p].pc = "done"
          /\ conns[p].pick_id = 1 /\ conns[p].row.result = "pending"
    /\ conns[1].result # conns[2].result
    /\ Len(db) = 1 /\ db[1].result = conns[2].result

-----------------------------------------------------------------------------
(* The total and the finiteness rules of _validate_inputs, under SpecEdge *)

\* C21: compute_edge returns a quarantined result whenever the model total
\* is a number below 150 or above 300, whatever that number is.
C21_TotalOutsideRangeQuarantined ==
    (Called /\ call.model_total.k = "num"
            /\ (call.model_total.v < 150000 \/ call.model_total.v > 300000))
        => ReturnedQuarantined

NonFiniteOrMissing(x) == x.k \in {"none", "nan", "inf"}

\* C22: compute_edge returns a quarantined result, and raises nothing,
\* whenever the model spread, the market spread, the model total or the
\* market total is NaN, +infinity, -infinity or missing.
C22_NonFiniteQuarantined ==
    (Called /\ (\/ NonFiniteOrMissing(call.model_spread_home)
                \/ NonFiniteOrMissing(call.market_spread_home)
                \/ NonFiniteOrMissing(call.model_total)
                \/ NonFiniteOrMissing(call.market_total)))
        => ReturnedQuarantined

-----------------------------------------------------------------------------
(* The verdict fields of an EdgeResult, checked under SpecEdge *)

\* C23: the confidence tier of an EdgeResult is the one the ordered joint
\* rules on edge size and a confidence value give (first match wins), and
\* it is the lowest tier "WATCH" when the edge is too small for any rule.
C23_TierByOrderedJointRules ==
    IsEdge =>
        LET abs_edge == Abs(call.model_spread_home.v - call.market_spread_home.v)
        IN  /\ \E conf \in ConfValues : res.confidence = build_edges_tier(abs_edge, conf)
            /\ (\A conf \in ConfValues : build_edges_tier(abs_edge, conf) = "WATCH") => res.confidence = "WATCH"

-----------------------------------------------------------------------------
(* The weighted composites, checked under SpecRating *)

WeightsOf(sport) == IF sport = "nba" THEN engine.nba_weights ELSE engine.ncaab_weights
\* w.season*season + w.last_15*last15 + w.last_5*last5 + w.last_game*last1 of
\* one metric over the four resolved windows, to the two decimals stored
FourWindowComposite(w, full, metric) ==
    Weighted4(w.season, full.season[metric], w.last_15, full.last_15[metric],
              w.last_5, full.last_5[metric], w.last_game, full.last_1[metric])

\* C24: in NBA and NCAAB ratings alike, weighted_net, weighted_off,
\* weighted_def and weighted_pace are the weighted sums of the four resolved
\* window values, each window with its own weight.
C24_CompositeUsesFourWindows ==
    Computed =>
        \A t \in DOMAIN ratings :
            LET full == FilledIn(rcall.profiles[t])
                w == WeightsOf(rcall.sport)
            IN  /\ ratings[t].weighted_net = FourWindowComposite(w, full, "net")
                /\ ratings[t].weighted_off = FourWindowComposite(w, full, "off")
                /\ ratings[t].weighted_def = FourWindowComposite(w, full, "def")
                /\ ratings[t].weighted_pace = FourWindowComposite(w, full, "pace")

-----------------------------------------------------------------------------
(* The streak of the performance report, checked under SpecTracker *)

\* The picks of the report that are not pushes; rows are in the order of
\* their timestamps
NonPush == {i \in Matching : picks[i].result # "push"}
LatestOf(S) == CHOOSE i \in S : \A j \in S : j <= i
\* The most recent non-push picks that all have the result of the latest one
LatestRun ==
    {i \in NonPush : \A j \in NonPush : j >= i => picks[j].result = picks[LatestOf(NonPush)].result}

-----------------------------------------------------------------------------
(* The injury summary, checked under SpecInjury *)

\* C26: the entries of a summary are listed most-impactful first: an entry
\* never comes after one whose expected_impact is smaller in magnitude.
C26_SummaryMostImpactfulFirst ==
    iop.op = "get_summary" =>
        \A i \in 1..Len(iop.summary.entries) : \A j \in 1..Len(iop.summary.entries) :
            i < j => Abs(expected_impact(iop.summary.entries[i]))
                        >= Abs(expected_impact(iop.summary.entries[j]))

-----------------------------------------------------------------------------
(* The model total of a game, checked under SpecBatch *)

\* The total of the formula with the scale ceiling scaleMax (in thousandths):
\*   ((offA + (scaleMax - defB))/2 + (offB + (scaleMax - defA))/2) * (avgPace/100)
\* rounded to one decimal, avgPace the mean of the two weighted_pace
TotalWithCeiling(scaleMax, a, b) ==
    LET pace2 == a.weighted_pace + b.weighted_pace
        pts2 == (a.weighted_off + (scaleMax - b.weighted_def))
                + (b.weighted_off + (scaleMax - a.weighted_def))
    IN  RoundHalfEven((pts2 \div 10) * (pace2 \div 10), 400000) * 100

\* C27: the model total of every game of a run is the formula's value with
\* scaleMax = 100 for the two ratings of the game.
C27_ModelTotalFormula ==
    \A k \in 1..Len(batch.all_edges) :
        LET c == batch.all_edges[k].call
        IN  c.model_total = Num(TotalWithCeiling(100000, c.home_rating, c.away_rating))

-----------------------------------------------------------------------------
(* Refresh cycles, checked under SpecRefresh *)

\* The request a window's rows came from
WindowKey(sport, w, day) ==
    IF sport = "nba" THEN NbaKey("Advanced", NbaWindowN(w)) ELSE NcaabKey(w, day)

\* C28: after every refresh cycle the metrics of each window the ratings
\* were computed from were requested from the feed in that cycle (none is
\* taken over from an earlier cycle), and the ratings map holds exactly the
\* teams of that cycle's season rows.
C28_RefreshUsesFreshMetrics ==
    pipeline.cycles >= 1 =>
        /\ \A w \in Windows :
            pipeline.used[w] # NoRows =>
                WindowKey(pipeline.sport, w, pipeline.games) \in pipeline.requested
        /\ DOMAIN pipeline.ratings =
            IF pipeline.used["season"] = NoRows THEN {}
            ELSE IF pipeline.sport = "nba" THEN {"SAS", "LAL"} ELSE {"Duke", "Gonzaga"}

-----------------------------------------------------------------------------
(* The verdict fields of an EdgeResult, checked under SpecEdge *)

\* C29: in every result compute_edge returns, quarantined or not, the
\* verdict fields agree: is_playable is false exactly when play_side is
\* "NO PLAY", and exactly when confidence is the lowest tier, LOW.
C29_VerdictFieldsAgree ==
    Returned =>
        /\ (res.is_playable = FALSE) <=> (res.play_side = "NO PLAY")
        /\ (res.is_playable = FALSE) <=> (res.confidence = "LOW")

\* A playable edge in the lowest playable tier of the stricter sport
C29_Witness ==
    /\ IsEdge
    /\ calcSport = "ncaab"
    /\ res.is_playable
    /\ res.play_side \in {"HOME", "AWAY"}
    /\ res.confidence = "MODERATE"

-----------------------------------------------------------------------------
(* The frame of update_result, checked under SpecTracker *)

\* The fields update_result may write
SameButGrade(old, new) ==
    new = [old EXCEPT !.closing_line = new.closing_line,
                      !.result = new.result,
                      !.profit_units = new.profit_units,
                      !.clv = new.clv]

\* C30: update_result changes only closing_line, result, profit_units and
\* clv of the pick with the given id; every other field of that pick and
\* every other pick stay as they were, and when no pick has that id the
\* store stays as it was and the call returns without an error.
C30_UpdateResultFrame ==
    [][lastOp'.op = "update_result" =>
        /\ Len(picks') = Len(picks)
        /\ seq' = seq
        /\ \A i \in 1..Len(picks) :
            IF picks[i].id = lastOp'.pick_id
                THEN SameButGrade(picks[i], picks'[i])
                ELSE picks'[i] = picks[i]
        /\ (\A i \in 1..Len(picks) : picks[i].id # lastOp'.pick_id) =>
                picks' = picks /\ lastOp'.found = FALSE]_vars

\* The first of two picks has been graded, the second is still pending
C30_Witness ==
    /\ lastOp.op = "update_result"
    /\ lastOp.found
    /\ Len(picks) = 2
    /\ picks[1].id = lastOp.pick_id
    /\ picks[1].result = "loss"
    /\ picks[1].closing_line # NoneV
    /\ picks[2].result = "pending"

=============================================================================
